---- MODULE Spec2Model ----
(***************************************************************************)
(* Fixed-capacity big-integer engine of nikrypt: BignumFast<NUM_BYTES>     *)
(* (src/src/math/bignum_fast.rs) and SignedBignumFast<NUM_BYTES>           *)
(* (src/src/math/signed_bignum_fast.rs).                                   *)
(*                                                                         *)
(* A value is a record [digits, pos]: digits is the array [u8; NUM_BYTES], *)
(* indexed from 0 (least significant digit first), pos the cached index of *)
(* the most significant digit.  The const generic NUM_BYTES is the first   *)
(* parameter N of every operator.  Every operation returns an outcome      *)
(* record: kind "ok" with the value, or "panic" / "none" / "err" when the  *)
(* Rust code panics, returns None or returns Err.                          *)
(***************************************************************************)
EXTENDS Integers, Sequences, FiniteSets, TLC

VARIABLES cap, x, y, out, pc, sacc, sout, steps

vars == <<cap, x, y, out, pc, sacc, sout, steps>>

-----------------------------------------------------------------------------
(* Bounds of the model *)

\* capacity of the small instantiation BignumFast<SmallCap>
SmallCap == 2

\* capacity of the large instantiation (at least the sixteen digits From<u128> writes)
LargeCap == 16

\* length of the byte slices imported into the large instantiation
MaxLargeSlice == 2

\* number of operations applied in a row to the signed accumulator
MaxSteps == 2

-----------------------------------------------------------------------------
(* Program constants *)

\* digits are u8
DIGIT_BITS == 8

\* let base = 256 in mul_ref; also the number of values of a u8
base == 256

\* for i in 0..16 in From<u128>
U128_BYTES == 16

\* a u64 limb is kept as LIMB_WORDS words of sixteen bits, the low word first
LIMB_WORDS == 4

word == base * base

-----------------------------------------------------------------------------
(* Input sets *)

Caps == {SmallCap, LargeCap}

\* bytes that byte slices are made of
InputBytes == {0, 1, 255}

\* native integers handed to From<u128>
U128Inputs == {0, 1, 4, 13, 255, 256, 445, 497, 65535}

\* little-endian byte slices of the operands of pow_mod: 0, 1, 4, 255, 256, 65535
PowBases == {<<0>>, <<1>>, <<4>>, <<255>>, <<0, 1>>, <<255, 255>>}

\* 0, 1, 2, 13, 256
PowExponents == {<<0>>, <<1>>, <<2>>, <<13>>, <<0, 1>>}

\* 0, 1, 2, 255, 497, 65535
PowModuli == {<<0>>, <<1>>, <<2>>, <<255>>, <<241, 1>>, <<255, 255>>}

\* characters hex strings are made of
HexChars == {"0", "f", "+", "g"}

\* optional prefixes of a hex string
HexPrefixes == {<<>>, <<"0", "x">>, <<"0", "x", "0", "x">>}

\* length of the body of a hex string
MaxHexBody == 4

\* number of limbs of the UBignum values
LimbCap == 2

\* loop iterations an egcd or gcd call is followed for
MaxEuclid == 16

SeqsUpTo(S, n) == UNION {[1..k -> S] : k \in 0..n}

\* byte slices handed to the importers: up to one byte more than the capacity
\* for the small instantiation, short ones for the large instantiation
ByteSlices(N) ==
    IF N = SmallCap THEN SeqsUpTo(InputBytes, SmallCap + 1)
    ELSE SeqsUpTo(InputBytes, MaxLargeSlice)

\* arguments of From<i128>
I128Inputs == {-256, -2, -1, 0, 1, 3}

\* exponents handed to the signed pow_mod
I128Exponents == {-1, 0, 1, 2}

\* shift distances, and bit indices for set_bit, unset_bit and toggle_bit
ShiftInputs == {1, 8}

BitInputs == {0, 8}

HexInputs == {p \o b : p \in HexPrefixes, b \in SeqsUpTo(HexChars, MaxHexBody)}

\* the signed operand pairs: From<i128> values on both sides of zero
PairInputs == {-256, -101, -13, -2, -1, 0, 1, 2, 13, 101, 256, 257}

\* a slice of N bytes, little-endian, with the top byte 1 and the low byte low
TopDigit(N, low) == [i \in 1..N |-> IF i = N THEN 1 ELSE IF i = 1 THEN low ELSE 0]

\* signed operands that fill the capacity
PairSlices(N) == {TopDigit(N, 0), TopDigit(N, 1)}

\* the primes RSA moduli are made of, and the public exponents tried
RsaPrimes == {3, 5, 17, 19, 23}

RsaExponents == {3, 5, 7}

\* shift distances for >> and << on one value: within a byte, whole bytes, both
ShiftDistances == {0, 1, 7, 8, 9, 12, 16, 24}

\* u128 values a heap Bignum is built from: one, two and three bytes long
BignumInputs == {0, 1, 2, 255, 256, 4660, 65535, 65536, 16777215}

\* bit indices for the bit mutators: in the low digit, in the second digit, in
\* the top digit, and the first index beyond the capacity
BitIndices(N) == {0, 1, 7, 8, 9, 8 * N - 8, 8 * N - 1, 8 * N}

\* u64 halves of the u128 values a UBignum is built from: 0, 1, 2^63, 2^64 - 1
LimbInputs ==
    {[k \in 0..(LIMB_WORDS - 1) |-> 0],
     [k \in 0..(LIMB_WORDS - 1) |-> IF k = 0 THEN 1 ELSE 0],
     [k \in 0..(LIMB_WORDS - 1) |-> IF k = LIMB_WORDS - 1 THEN word \div 2 ELSE 0],
     [k \in 0..(LIMB_WORDS - 1) |-> word - 1]}

\* a well-formed hex string whose value needs N + 1 bytes: 0xf00..0
OverlongHex(N) == <<"0", "x", "f">> \o [k \in 1..(2 * N) |-> "0"]

\* strings handed to try_from_hex_string when the string is kept with the outcome
HexCallInputs(N) == HexInputs \cup {OverlongHex(N)}

-----------------------------------------------------------------------------
(* Outcomes *)

Ok(v) == [kind |-> "ok", val |-> v]

Panic == [kind |-> "panic"]

None == [kind |-> "none"]

Err == [kind |-> "err"]

IsOk(r) == r.kind = "ok"

-----------------------------------------------------------------------------
(* u8 / u16 arithmetic *)

RECURSIVE Pow2(_)
Pow2(k) == IF k = 0 THEN 1 ELSE 2 * Pow2(k - 1)

\* (byte >> k) & 1 == 1
BitOf(byte, k) == (byte \div Pow2(k)) % 2 = 1

\* byte | (1 << k)
OrBit(byte, k) == IF BitOf(byte, k) THEN byte ELSE byte + Pow2(k)

\* byte & !(1 << k)
ClearBit(byte, k) == IF BitOf(byte, k) THEN byte - Pow2(k) ELSE byte

\* byte ^ (1 << k)
XorBit(byte, k) == IF BitOf(byte, k) THEN byte - Pow2(k) ELSE byte + Pow2(k)

\* a.overflowing_sub(b) on u8: <<wrapped difference, borrow>>
overflowing_sub(a, b) == IF a >= b THEN <<a - b, 0>> ELSE <<a - b + base, 1>>

-----------------------------------------------------------------------------
(* BignumFast: construction *)

calc_pos(length) ==
    IF length <= 2 THEN 0
    ELSE IF length % 2 = 0 THEN length \div 2 - 1
    ELSE length \div 2

zero(N) == [digits |-> [i \in 0..(N - 1) |-> 0], pos |-> 0]

new(N) == zero(N)

is_zero(a) == a.pos = 0 /\ a.digits[0] = 0

is_even(a) == a.digits[0] % 2 = 0

len(a) == a.pos + 1

\* for (i, e) in value.iter().enumerate(): the pair <<digits, pos_last_non_zero>>
\* after the first k iterations (iteration i reads value[i], the (i+1)-th byte)
RECURSIVE import_loop(_, _, _)
import_loop(value, k, digits) ==
    IF k = 0 THEN <<digits, 0>>
    ELSE LET prev == import_loop(value, k - 1, digits)
             i == k - 1
             e == value[k]
         IN <<[prev[1] EXCEPT ![i] = e], IF e # 0 THEN i ELSE prev[2]>>

\* the slice as it is
Unreversed(s) == s

Reverse(s) == [k \in 1..Len(s) |-> s[Len(s) + 1 - k]]

from_little_endian(N, value) ==
    IF Len(value) > N THEN None
    ELSE LET r == import_loop(value, Len(value), new(N).digits)
             p == calc_pos(Len(value) * 2)
         IN Ok([digits |-> r[1], pos |-> IF p > 0 THEN r[2] ELSE p])

from_big_endian(N, value) ==
    IF Len(value) > N THEN None
    ELSE LET r == import_loop(Reverse(value), Len(value), new(N).digits)
             p == calc_pos(Len(value) * 2)
         IN Ok([digits |-> r[1], pos |-> IF p > 0 THEN r[2] ELSE p])

\* for i in 0..16: the state after the first k iterations, rest = value >> (k * 8).
\* e = (value >> (i * 8)) as u8; writing digits[i] with i >= NUM_BYTES is an
\* index out of bounds.
RECURSIVE from_u128_loop(_, _, _)
from_u128_loop(N, value, k) ==
    IF k = 0 THEN Ok([digits |-> new(N).digits, pos_last_non_zero |-> 0, rest |-> value])
    ELSE LET prev == from_u128_loop(N, value, k - 1)
             i == k - 1
         IN IF ~IsOk(prev) \/ i >= N THEN Panic
            ELSE LET e == prev.val.rest % base
                 IN Ok([digits |-> [prev.val.digits EXCEPT ![i] = e],
                        pos_last_non_zero |-> IF e # 0 THEN i ELSE prev.val.pos_last_non_zero,
                        rest |-> prev.val.rest \div base])

from_u128(N, value) ==
    LET r == from_u128_loop(N, value, U128_BYTES)
    IN IF ~IsOk(r) THEN Panic
       ELSE Ok([digits |-> r.val.digits, pos |-> r.val.pos_last_non_zero])

-----------------------------------------------------------------------------
(* BignumFast: hex import *)

StartsWith(s, p) == Len(s) >= Len(p) /\ SubSeq(s, 1, Len(p)) = p

\* s.trim_start_matches(p): strip the prefix p as long as it is there
RECURSIVE trim_start_matches(_, _)
trim_start_matches(s, p) ==
    IF StartsWith(s, p) THEN trim_start_matches(SubSeq(s, Len(p) + 1, Len(s)), p)
    ELSE s

\* the sixteen lowercase hex digits, by value
HexDigits == <<"0", "1", "2", "3", "4", "5", "6", "7",
               "8", "9", "a", "b", "c", "d", "e", "f">>

\* char::to_digit(16): the value of a hex digit, -1 for any other character
to_digit(c) ==
    IF \E i \in 1..16 : HexDigits[i] = c
    THEN (CHOOSE i \in 1..16 : HexDigits[i] = c) - 1
    ELSE CASE c = "A" -> 10
           [] c = "B" -> 11
           [] c = "C" -> 12
           [] c = "D" -> 13
           [] c = "E" -> 14
           [] c = "F" -> 15
           [] OTHER -> -1

RECURSIVE parse_digits(_, _, _)
parse_digits(b, k, acc) ==
    IF k > Len(b) THEN Ok(acc)
    ELSE IF to_digit(b[k]) < 0 THEN Err
    ELSE parse_digits(b, k + 1, acc * 16 + to_digit(b[k]))

\* u8::from_str_radix(b, 16) for a slice of one or two characters: an optional
\* leading + sign, then hex digits only
u8_from_str_radix(b) ==
    IF Len(b) = 0 THEN Err
    ELSE IF b[1] = "+" THEN (IF Len(b) = 1 THEN Err ELSE parse_digits(b, 2, 0))
    ELSE parse_digits(b, 1, 0)

\* for i in 0..len / 2: digits[i] = the pair s[len - (2i + 2) .. len - 2i];
\* the outcome after the first k iterations
RECURSIVE hex_pairs_loop(_, _, _)
hex_pairs_loop(N, s, k) ==
    IF k = 0 THEN Ok(new(N).digits)
    ELSE LET prev == hex_pairs_loop(N, s, k - 1)
             i == k - 1
         IN IF ~IsOk(prev) THEN prev
            ELSE LET b == u8_from_str_radix(
                              SubSeq(s, Len(s) - (2 * i + 2) + 1, Len(s) - 2 * i))
                 IN IF ~IsOk(b) THEN Err
                    ELSE IF i >= N THEN Panic
                    ELSE Ok([prev.val EXCEPT ![i] = b.val])

try_from_hex_string(N, str) ==
    LET s == trim_start_matches(trim_start_matches(str, <<"0", "x">>), <<"0">>)
        length == Len(s)
        pairs == hex_pairs_loop(N, s, length \div 2)
    IN IF ~IsOk(pairs) THEN pairs
       ELSE IF length % 2 # 0
            THEN LET b == u8_from_str_radix(SubSeq(s, 1, 1))
                 IN IF ~IsOk(b) THEN Err
                    ELSE IF length \div 2 >= N THEN Panic
                    ELSE Ok([digits |-> [pairs.val EXCEPT ![length \div 2] = b.val],
                             pos |-> calc_pos(length)])
            ELSE Ok([digits |-> pairs.val, pos |-> calc_pos(length)])

-----------------------------------------------------------------------------
(* BignumFast: hex export *)

\* format!("{:x}", b): no padding
format_x(b) ==
    IF b < 16 THEN <<HexDigits[b + 1]>>
    ELSE <<HexDigits[(b \div 16) + 1], HexDigits[(b % 16) + 1]>>

\* format!("{:02x}", b): two lowercase hex digits
format_02x(b) == <<HexDigits[(b \div 16) + 1], HexDigits[(b % 16) + 1]>>

\* for b in self.digits.iter().rev(): zero bytes are skipped until the first
\* nonzero byte; what is pushed from digits[i] down to digits[0]
RECURSIVE hex_bytes(_, _, _)
hex_bytes(digits, i, leading_zeros) ==
    IF i < 0 THEN <<>>
    ELSE IF digits[i] = 0 /\ leading_zeros THEN hex_bytes(digits, i - 1, TRUE)
    ELSE format_02x(digits[i]) \o hex_bytes(digits, i - 1, FALSE)

\* res.strip_prefix('0'), res staying as it is when there is no such prefix
strip_prefix(res, c) == IF Len(res) > 0 /\ res[1] = c THEN Tail(res) ELSE res

to_hex_string(N, a) ==
    IF a.pos = 0 /\ a.digits[0] = 0 THEN <<"0", "x", "0">>
    ELSE <<"0", "x">> \o strip_prefix(hex_bytes(a.digits, N - 1, TRUE), "0")

-----------------------------------------------------------------------------
(* BignumFast: bit accessors *)

get_bit(N, a, bit) ==
    IF bit >= N * 8 THEN Panic
    ELSE Ok(BitOf(a.digits[bit \div 8], bit % 8))

set_bit(N, a, bit) ==
    LET byte_pos == bit \div 8
    IN IF byte_pos >= N THEN Panic
       ELSE Ok([a EXCEPT !.digits[byte_pos] = OrBit(@, bit % 8),
                         !.pos = IF byte_pos > a.pos THEN byte_pos ELSE a.pos])

\* pos left where it was
rescan_skipped(digits, i) == i

\* for (i, e) in digits[0..len].iter().enumerate().rev():
\*     if *e != 0 || i == 0 { pos = i; return }
RECURSIVE rescan(_, _)
rescan(digits, i) ==
    IF digits[i] # 0 \/ i = 0 THEN i ELSE rescan(digits, i - 1)

unset_bit(N, a, bit) ==
    LET byte_pos == bit \div 8
    IN IF byte_pos >= N THEN Panic
       ELSE LET d == [a.digits EXCEPT ![byte_pos] = ClearBit(@, bit % 8)]
            IN Ok([a EXCEPT !.digits = d, !.pos = rescan(d, a.pos)])

toggle_bit(N, a, bit) ==
    LET byte_pos == bit \div 8
    IN IF byte_pos >= N THEN Panic
       ELSE LET d == [a.digits EXCEPT ![byte_pos] = XorBit(@, bit % 8)]
            IN IF d[byte_pos] # 0
               THEN Ok([a EXCEPT !.digits = d,
                                 !.pos = IF byte_pos > a.pos THEN byte_pos ELSE a.pos])
               ELSE Ok([a EXCEPT !.digits = d, !.pos = rescan(d, a.pos)])

-----------------------------------------------------------------------------
(* BignumFast: comparison *)

\* Index of the first digit, from len(a) - 1 down to 0, where a and b differ;
\* -1 when the zipped slices digits[0..a.len()] agree.
RECURSIVE first_diff(_, _, _)
first_diff(a, b, i) ==
    IF i < 0 THEN -1
    ELSE IF a.digits[i] # b.digits[i] THEN i
    ELSE first_diff(a, b, i - 1)

eq(a, b) ==
    IF a.pos # b.pos THEN FALSE
    ELSE first_diff(a, b, a.pos) < 0

lt(a, b) ==
    IF a.pos # b.pos THEN a.pos < b.pos
    ELSE LET i == first_diff(a, b, a.pos)
         IN IF i >= 0 THEN a.digits[i] < b.digits[i] ELSE FALSE

\* le with the slices equal taken for "not less or equal"
le_strict(a, b) ==
    IF a.pos # b.pos THEN a.pos < b.pos
    ELSE LET i == first_diff(a, b, a.pos)
         IN IF i >= 0 THEN a.digits[i] < b.digits[i] ELSE FALSE

le(a, b) ==
    IF a.pos # b.pos THEN a.pos < b.pos
    ELSE LET i == first_diff(a, b, a.pos)
         IN IF i >= 0 THEN a.digits[i] < b.digits[i] ELSE TRUE

gt(a, b) ==
    IF a.pos # b.pos THEN a.pos > b.pos
    ELSE LET i == first_diff(a, b, a.pos)
         IN IF i >= 0 THEN a.digits[i] > b.digits[i] ELSE FALSE

ge(a, b) ==
    IF a.pos # b.pos THEN a.pos > b.pos
    ELSE LET i == first_diff(a, b, a.pos)
         IN IF i >= 0 THEN a.digits[i] > b.digits[i] ELSE TRUE

\* usize::cmp / u8::cmp
cmp(m, n) == IF m < n THEN "Less" ELSE IF m > n THEN "Greater" ELSE "Equal"

partial_cmp(a, b) ==
    IF a.pos # b.pos THEN cmp(a.pos, b.pos)
    ELSE LET i == first_diff(a, b, a.pos)
         IN IF i >= 0 THEN cmp(a.digits[i], b.digits[i]) ELSE "Equal"

-----------------------------------------------------------------------------
(* BignumFast: addition and subtraction *)

\* for i in 0..long.len(): tmp = long[i] + carry (+ short[i]); carry = tmp >> 8;
\* the state [digits, carry] after the first k iterations
RECURSIVE add_loop(_, _, _, _)
add_loop(long, short, k, digits) ==
    IF k = 0 THEN [digits |-> digits, carry |-> 0]
    ELSE LET prev == add_loop(long, short, k - 1, digits)
             i == k - 1
             tmp == long.digits[i] + prev.carry
                    + (IF i < len(short) THEN short.digits[i] ELSE 0)
         IN [digits |-> [prev.digits EXCEPT ![i] = tmp % base],
             carry |-> tmp \div Pow2(DIGIT_BITS)]

\* the carry block without its panic: a carry out of the last digit is dropped
add_carry_out_truncating(N, digits, pos, carry) ==
    IF carry # 0 /\ pos + 1 < N
    THEN Ok([digits |-> [digits EXCEPT ![pos + 1] = carry], pos |-> pos + 1])
    ELSE Ok([digits |-> digits, pos |-> pos])

\* the block `if carry != 0 { ... }` that ends add_ref
add_carry_out(N, digits, pos, carry) ==
    IF carry # 0
    THEN IF pos + 1 = N THEN Panic
         ELSE Ok([digits |-> [digits EXCEPT ![pos + 1] = carry], pos |-> pos + 1])
    ELSE Ok([digits |-> digits, pos |-> pos])

add_ref(N, a, b) ==
    LET long == IF a.pos > b.pos THEN a ELSE b
        short == IF a.pos > b.pos THEN b ELSE a
        r == add_loop(long, short, len(long), new(N).digits)
    IN add_carry_out(N, r.digits, long.pos, r.carry)

\* for i in 0..long.len(): two overflowing_sub per digit, the borrow in carry;
\* the state [digits, carry, pos_last_non_zero] after the first k iterations
RECURSIVE sub_loop(_, _, _, _)
sub_loop(long, short, k, digits) ==
    IF k = 0 THEN [digits |-> digits, carry |-> 0, pos_last_non_zero |-> 0]
    ELSE LET prev == sub_loop(long, short, k - 1, digits)
             i == k - 1
             s1 == overflowing_sub(long.digits[i], prev.carry)
             s2 == IF i < len(short) THEN overflowing_sub(s1[1], short.digits[i])
                   ELSE <<s1[1], 0>>
             sum == s2[1]
         IN [digits |-> [prev.digits EXCEPT ![i] = sum],
             carry |-> s1[2] + s2[2],
             pos_last_non_zero |-> IF sum # 0 THEN i ELSE prev.pos_last_non_zero]

\* sub_ref without the check for a smaller minuend
sub_ref_unchecked(N, a, b) ==
    IF partial_cmp(a, b) = "Equal" THEN Ok(zero(N))
    ELSE LET r == sub_loop(a, b, len(a), new(N).digits)
         IN Ok([digits |-> r.digits, pos |-> r.pos_last_non_zero])

sub_ref(N, a, b) ==
    LET c == partial_cmp(a, b)
    IN IF c = "Less" THEN Panic
       ELSE IF c = "Equal" THEN Ok(zero(N))
       ELSE LET r == sub_loop(a, b, len(a), new(N).digits)
            IN Ok([digits |-> r.digits, pos |-> r.pos_last_non_zero])

-----------------------------------------------------------------------------
(* BignumFast: multiplication *)

\* tmp is a u16: an addition that leaves the u16 range is an arithmetic overflow
Overflow == [kind |-> "overflow"]

\* let mut tmp = digits[a_i + b_i] as u16; tmp += carry + a[a_i] as u16 * b[b_i] as u16
mul_tmp(digit, carry, a_digit, b_digit) == digit + carry + a_digit * b_digit

\* carry = tmp, the division left out
mul_carry_whole(tmp) == tmp

\* carry = tmp / base
mul_carry(tmp) == tmp \div base

\* the panic test comparing with >= in place of >
mul_fits_strict(N, a, b) == len(a) + len(b) < N

\* p + q > NUM_BYTES is the panic
mul_fits(N, a, b) == len(a) + len(b) <= N

\* for a_i in 0..p: row b_i of the schoolbook product, from iteration a_i on,
\* st = [digits, carry, pos_last_non_zero] being the state reached so far
RECURSIVE mul_row(_, _, _, _, _)
mul_row(a, b, b_i, a_i, st) ==
    IF a_i = len(a) THEN Ok(st)
    ELSE LET tmp == mul_tmp(st.digits[a_i + b_i], st.carry, a.digits[a_i], b.digits[b_i])
             low == tmp % base
         IN IF tmp >= Pow2(2 * DIGIT_BITS) THEN Overflow
            ELSE mul_row(a, b, b_i, a_i + 1,
                         [digits |-> [st.digits EXCEPT ![a_i + b_i] = low],
                          carry |-> mul_carry(tmp),
                          pos_last_non_zero |-> IF low # 0 THEN a_i + b_i
                                                ELSE st.pos_last_non_zero])

\* the outer loop without `if carry != 0 { pos_last_non_zero = b_i + p }`
RECURSIVE mul_rows_stale_pos(_, _, _, _, _)
mul_rows_stale_pos(a, b, b_i, digits, pos_last_non_zero) ==
    IF b_i = len(b) THEN Ok([digits |-> digits, pos |-> pos_last_non_zero])
    ELSE LET row == mul_row(a, b, b_i, 0,
                            [digits |-> digits, carry |-> 0,
                             pos_last_non_zero |-> pos_last_non_zero])
         IN IF ~IsOk(row) THEN row
            ELSE mul_rows_stale_pos(a, b, b_i + 1,
                                    [row.val.digits EXCEPT ![b_i + len(a)] = row.val.carry],
                                    row.val.pos_last_non_zero)

\* for b_i in 0..q: a row, then the row's carry goes to digits[b_i + p]
RECURSIVE mul_rows(_, _, _, _, _)
mul_rows(a, b, b_i, digits, pos_last_non_zero) ==
    IF b_i = len(b) THEN Ok([digits |-> digits, pos |-> pos_last_non_zero])
    ELSE LET row == mul_row(a, b, b_i, 0,
                            [digits |-> digits, carry |-> 0,
                             pos_last_non_zero |-> pos_last_non_zero])
         IN IF ~IsOk(row) THEN row
            ELSE mul_rows(a, b, b_i + 1,
                          [row.val.digits EXCEPT ![b_i + len(a)] = row.val.carry],
                          IF row.val.carry # 0 THEN b_i + len(a)
                          ELSE row.val.pos_last_non_zero)

mul_ref(N, a, b) ==
    IF ~mul_fits(N, a, b) THEN Panic
    ELSE mul_rows(a, b, 0, new(N).digits, 0)

-----------------------------------------------------------------------------
(* BignumFast: shifts *)

\* for i in (0..len).rev(): the sub-byte part of a right shift,
\* digits[i] = (digits[i] >> shift) | carry, carry = (digits[i] << (8 - shift)) as u8;
\* the state [digits, carry] after the iterations top, top - 1, ..., i
RECURSIVE shr_bits(_, _, _, _)
shr_bits(digits, top, i, shift) ==
    IF i > top THEN [digits |-> digits, carry |-> 0]
    ELSE LET prev == shr_bits(digits, top, i + 1, shift)
         IN [digits |-> [prev.digits EXCEPT
                           ![i] = (prev.digits[i] \div Pow2(shift)) + prev.carry],
             carry |-> (prev.digits[i] * Pow2(DIGIT_BITS - shift)) % base]

shr(N, a, rhs) ==
    LET shift == rhs % 8
        bytes_shift == rhs \div 8
    IN IF bytes_shift >= len(a) THEN Ok(zero(N))
       ELSE IF a.pos + bytes_shift >= N THEN Panic
       ELSE LET moved == [i \in 0..(N - 1) |->
                            IF i < len(a) THEN a.digits[i + bytes_shift] ELSE a.digits[i]]
            IN IF shift = 0
               THEN Ok([a EXCEPT !.digits = moved, !.pos = a.pos - bytes_shift])
               ELSE LET d == shr_bits(moved, a.pos, 0, shift).digits
                        p == a.pos - bytes_shift
                    IN Ok([a EXCEPT !.digits = d,
                                     !.pos = IF d[p] = 0 /\ p > 0 THEN p - 1 ELSE p])

\* for i in bytes_shift..len + bytes_shift: the sub-byte part of a left shift,
\* digits[i] = (digits[i] << shift) | carry, carry = digits[i] >> (8 - shift);
\* the state [digits, carry] after the iterations first, first + 1, ..., i
RECURSIVE shl_bits(_, _, _, _)
shl_bits(digits, first, i, shift) ==
    IF i < first THEN [digits |-> digits, carry |-> 0]
    ELSE LET prev == shl_bits(digits, first, i - 1, shift)
         IN [digits |-> [prev.digits EXCEPT
                           ![i] = ((prev.digits[i] * Pow2(shift)) % base) + prev.carry],
             carry |-> prev.digits[i] \div Pow2(DIGIT_BITS - shift)]

\* the whole bytes shortened to what the capacity leaves room for
shl_bytes_shift_clamped(N, a, rhs) ==
    IF rhs \div 8 + len(a) > N THEN N - len(a) ELSE rhs \div 8

\* let mut bytes_shift = rhs / 8; if bytes_shift + self.len() > NUM_BYTES { bytes_shift = 0 }
shl_bytes_shift(N, a, rhs) ==
    IF rhs \div 8 + len(a) > N THEN 0 ELSE rhs \div 8

shl(N, a, rhs) ==
    LET shift == rhs % 8
        bytes_shift == shl_bytes_shift(N, a, rhs)
        moved == [i \in 0..(N - 1) |->
                    IF i < bytes_shift THEN 0
                    ELSE IF i < len(a) + bytes_shift THEN a.digits[i - bytes_shift]
                    ELSE a.digits[i]]
        r == shl_bits(moved, bytes_shift, a.pos + bytes_shift, shift)
        p == a.pos + bytes_shift
    IN IF r.carry # 0 /\ p + 1 < N
       THEN Ok([a EXCEPT !.digits = [r.digits EXCEPT ![p + 1] = r.carry], !.pos = p + 1])
       ELSE Ok([a EXCEPT !.digits = r.digits, !.pos = p])

-----------------------------------------------------------------------------
(* BignumFast: division and modular exponentiation *)

\* the pair (q, r) once both updates of an iteration went through
div_pair(q, r) ==
    IF ~IsOk(q) \/ ~IsOk(r) THEN Panic ELSE Ok([q |-> q.val, r |-> r.val])

\* the bit of the dividend brought in upside down
div_shift_in_inverted(N, b, r) ==
    IF ~IsOk(b) \/ ~IsOk(r) THEN Panic
    ELSE IF b.val THEN unset_bit(N, r.val, 0) ELSE set_bit(N, r.val, 0)

\* if n.get_bit(i) { r.set_bit(0) } else { r.unset_bit(0) }, r being r << 1
div_shift_in(N, b, r) ==
    IF ~IsOk(b) \/ ~IsOk(r) THEN Panic
    ELSE IF b.val THEN set_bit(N, r.val, 0) ELSE unset_bit(N, r.val, 0)

\* the reduction with r > *rhs for r >= *rhs
div_reduce_gt(N, rhs, i, q, r) ==
    IF ~IsOk(r) THEN Panic
    ELSE IF gt(r.val, rhs) THEN div_pair(set_bit(N, q, i), sub_ref(N, r.val, rhs))
    ELSE Ok([q |-> q, r |-> r.val])

\* if r >= *rhs { r = r.sub_ref(rhs); q.set_bit(i) }
div_reduce(N, rhs, i, q, r) ==
    IF ~IsOk(r) THEN Panic
    ELSE IF ge(r.val, rhs) THEN div_pair(set_bit(N, q, i), sub_ref(N, r.val, rhs))
    ELSE Ok([q |-> q, r |-> r.val])

\* One iteration of the loop of div_with_remainder for bit i of the dividend n
div_step(N, n, rhs, i, q, r) ==
    div_reduce(N, rhs, i, q, div_shift_in(N, get_bit(N, n, i), shl(N, r, 1)))

\* for i in (0..n_len).rev(), cut into one run of eight iterations per digit of
\* n: div_bits runs the iterations i, i - 1, ..., lo from the state st, an
\* outcome holding the pair (q, r)
RECURSIVE div_bits(_, _, _, _, _, _)
div_bits(N, n, rhs, i, lo, st) ==
    IF i < lo \/ ~IsOk(st) THEN st
    ELSE div_bits(N, n, rhs, i - 1, lo, div_step(N, n, rhs, i, st.val.q, st.val.r))

\* the runs for the digits k, k - 1, ..., 0 of n
RECURSIVE div_loop(_, _, _, _, _)
div_loop(N, n, rhs, k, st) ==
    IF k < 0 \/ ~IsOk(st) THEN st
    ELSE div_loop(N, n, rhs, k - 1, div_bits(N, n, rhs, 8 * k + 7, 8 * k, st))

div_with_remainder(N, a, rhs) ==
    div_loop(N, a, rhs, len(a) - 1, Ok([q |-> new(N), r |-> new(N)]))

\* let (_, r) = ...: the second component of a division's outcome
remainder(d) == IF ~IsOk(d) THEN Panic ELSE Ok(d.val.r)

\* product.div_with_remainder(modulus)
div_of(N, product, modulus) ==
    IF ~IsOk(product) THEN Panic ELSE div_with_remainder(N, product.val, modulus)

\* (_, t) = BignumFast::mul_ref(&a, &b).div_with_remainder(modulus)
mul_mod(N, a, b, modulus) == remainder(div_of(N, mul_ref(N, a, b), modulus))

\* while !exp.is_zero() { ... }; then t.div_with_remainder(modulus).1.
\* b, exp and t are the outcomes of the statements that assigned them last.
RECURSIVE pow_mod_loop(_, _, _, _, _)
pow_mod_loop(N, b, exp, t, modulus) ==
    IF ~IsOk(b) \/ ~IsOk(exp) \/ ~IsOk(t) THEN Panic
    ELSE IF is_zero(exp.val) THEN remainder(div_with_remainder(N, t.val, modulus))
    ELSE pow_mod_loop(N,
                      mul_mod(N, b.val, b.val, modulus),
                      shr(N, exp.val, 1),
                      IF ~is_even(exp.val) THEN mul_mod(N, t.val, b.val, modulus) ELSE t,
                      modulus)

pow_mod(N, a, exponent, modulus) ==
    pow_mod_loop(N, Ok(a), Ok(exponent), from_u128(N, 1), modulus)

-----------------------------------------------------------------------------
(* SignedBignumFast: digits and pos as in BignumFast, plus the field sign.   *)
(* The bit accessors and shifts above update a record in place, so they act  *)
(* on a signed value as the functions of the same name of the signed type.   *)

szero(N) == [digits |-> [i \in 0..(N - 1) |-> 0], pos |-> 0, sign |-> FALSE]

\* a freshly built magnitude (SignedBignumFast::new() filled in) with its sign
signed(r, sign) ==
    IF ~IsOk(r) THEN r
    ELSE Ok([digits |-> r.val.digits, pos |-> r.val.pos, sign |-> sign])

\* tmp.sign = sign on the outcome of a call
set_sign(r, sign) == IF ~IsOk(r) THEN r ELSE Ok([r.val EXCEPT !.sign = sign])

unsigned_abs(value) == IF value < 0 THEN -value ELSE value

s_from_u128(N, value) == signed(from_u128(N, value), FALSE)

s_from_i128(N, value) == set_sign(s_from_u128(N, unsigned_abs(value)), value < 0)

s_from_i32(N, value) == set_sign(s_from_u128(N, unsigned_abs(value)), value < 0)

\* PartialEq::eq looks at pos and digits only
s_eq(a, b) == eq(a, b)

ge_internal(a, b) == ge(a, b)

gt_internal(a, b) == gt(a, b)

s_partial_cmp(a, b) ==
    IF a.sign /\ ~b.sign THEN "Less"
    ELSE IF ~a.sign /\ b.sign THEN "Greater"
    ELSE IF a.pos # b.pos
         THEN (IF a.sign THEN cmp(b.pos, a.pos) ELSE cmp(a.pos, b.pos))
    ELSE LET i == first_diff(a, b, a.pos)
         IN IF i < 0 THEN "Equal"
            ELSE IF a.sign THEN cmp(b.digits[i], a.digits[i])
            ELSE cmp(a.digits[i], b.digits[i])

add_ref_internal(N, a, b) == signed(add_ref(N, a, b), FALSE)

\* no check that self >= rhs: a smaller minuend wraps around
sub_ref_internal(N, a, b) ==
    IF s_partial_cmp(a, b) = "Equal" THEN Ok(szero(N))
    ELSE LET r == sub_loop(a, b, len(a), new(N).digits)
         IN Ok([digits |-> r.digits, pos |-> r.pos_last_non_zero, sign |-> FALSE])

\* the arm without the sign of the larger magnitude
sub_magnitudes_abs(N, pos, neg) ==
    IF s_eq(pos, neg) THEN Ok(szero(N))
    ELSE IF gt_internal(pos, neg) THEN sub_ref_internal(N, pos, neg)
    ELSE sub_ref_internal(N, neg, pos)

\* the arm shared by (-x) + (y), (x) + (-y), (x) - (y) and (-x) - (-y):
\* pos - neg for magnitudes
sub_magnitudes(N, pos, neg) ==
    IF s_eq(pos, neg) THEN Ok(szero(N))
    ELSE IF gt_internal(pos, neg) THEN sub_ref_internal(N, pos, neg)
    ELSE set_sign(sub_ref_internal(N, neg, pos), TRUE)

s_add_ref(N, a, b) ==
    IF ~a.sign /\ ~b.sign THEN add_ref_internal(N, a, b)
    ELSE IF a.sign /\ ~b.sign THEN sub_magnitudes(N, b, a)
    ELSE IF ~a.sign /\ b.sign THEN sub_magnitudes(N, a, b)
    ELSE set_sign(add_ref_internal(N, a, b), TRUE)

s_sub_ref(N, a, b) ==
    IF ~a.sign /\ ~b.sign THEN sub_magnitudes(N, a, b)
    ELSE IF a.sign /\ ~b.sign THEN set_sign(add_ref_internal(N, a, b), TRUE)
    ELSE IF ~a.sign /\ b.sign THEN add_ref_internal(N, a, b)
    ELSE sub_magnitudes(N, b, a)

\* bignum.sign = match bignum.is_zero() { true => false, false => sign }
sign_unless_zero(r, sign) ==
    IF ~IsOk(r) THEN r
    ELSE Ok([digits |-> r.val.digits, pos |-> r.val.pos,
             sign |-> IF is_zero(r.val) THEN FALSE ELSE sign])

s_mul_ref(N, a, b) ==
    sign_unless_zero(mul_ref(N, a, b), (a.sign /\ ~b.sign) \/ (~a.sign /\ b.sign))

s_shr(N, a, rhs) == IF rhs \div 8 >= len(a) THEN Ok(szero(N)) ELSE shr(N, a, rhs)

s_shl(N, a, rhs) == shl(N, a, rhs)

\* if r.ge_internal(rhs) { r = r.sub_ref_internal(rhs); q.set_bit(i) }
s_div_reduce(N, rhs, i, q, r) ==
    IF ~IsOk(r) THEN Panic
    ELSE IF ge_internal(r.val, rhs)
         THEN div_pair(set_bit(N, q, i), sub_ref_internal(N, r.val, rhs))
    ELSE Ok([q |-> q, r |-> r.val])

s_div_step(N, n, rhs, i, q, r) ==
    s_div_reduce(N, rhs, i, q, div_shift_in(N, get_bit(N, n, i), s_shl(N, r, 1)))

RECURSIVE s_div_bits(_, _, _, _, _, _)
s_div_bits(N, n, rhs, i, lo, st) ==
    IF i < lo \/ ~IsOk(st) THEN st
    ELSE s_div_bits(N, n, rhs, i - 1, lo, s_div_step(N, n, rhs, i, st.val.q, st.val.r))

RECURSIVE s_div_loop(_, _, _, _, _)
s_div_loop(N, n, rhs, k, st) ==
    IF k < 0 \/ ~IsOk(st) THEN st
    ELSE s_div_loop(N, n, rhs, k - 1, s_div_bits(N, n, rhs, 8 * k + 7, 8 * k, st))

\* the signs with the remainder following the divisor
div_signs_divisor(a, rhs, st) ==
    IF ~IsOk(st) THEN Panic
    ELSE Ok([q |-> [st.val.q EXCEPT !.sign =
                        IF is_zero(st.val.q) THEN FALSE
                        ELSE (a.sign /\ ~rhs.sign) \/ (~a.sign /\ rhs.sign)],
             r |-> [st.val.r EXCEPT !.sign =
                        IF is_zero(st.val.r) THEN FALSE ELSE rhs.sign]])

\* q.sign and r.sign, assigned after the loop
div_signs(a, rhs, st) ==
    IF ~IsOk(st) THEN Panic
    ELSE Ok([q |-> [st.val.q EXCEPT !.sign =
                        IF is_zero(st.val.q) THEN FALSE
                        ELSE (a.sign /\ ~rhs.sign) \/ (~a.sign /\ rhs.sign)],
             r |-> [st.val.r EXCEPT !.sign =
                        IF is_zero(st.val.r) THEN FALSE ELSE a.sign]])

s_div_with_remainder(N, a, rhs) ==
    IF is_zero(a) THEN Ok([q |-> szero(N), r |-> szero(N)])
    ELSE IF is_zero(rhs) THEN Panic
    ELSE div_signs(a, rhs,
                   s_div_loop(N, a, rhs, len(a) - 1,
                              Ok([q |-> szero(N), r |-> szero(N)])))

s_div_of(N, product, modulus) ==
    IF ~IsOk(product) THEN Panic ELSE s_div_with_remainder(N, product.val, modulus)

s_mul_mod(N, a, b, modulus) == remainder(s_div_of(N, s_mul_ref(N, a, b), modulus))

RECURSIVE s_pow_mod_loop(_, _, _, _, _)
s_pow_mod_loop(N, b, exp, t, modulus) ==
    IF ~IsOk(b) \/ ~IsOk(exp) \/ ~IsOk(t) THEN Panic
    ELSE IF is_zero(exp.val) THEN remainder(s_div_with_remainder(N, t.val, modulus))
    ELSE s_pow_mod_loop(N,
                        s_mul_mod(N, b.val, b.val, modulus),
                        s_shr(N, exp.val, 1),
                        IF ~is_even(exp.val) THEN s_mul_mod(N, t.val, b.val, modulus) ELSE t,
                        modulus)

s_pow_mod(N, a, exponent, modulus) ==
    IF exponent.sign THEN Panic
    ELSE set_sign(s_pow_mod_loop(N, Ok(a), Ok(exponent), s_from_i32(N, 1), modulus),
                  a.sign /\ ~is_even(exponent))

s_from_little_endian(N, value) == signed(from_little_endian(N, value), FALSE)

-----------------------------------------------------------------------------
(* utils::egcd on SignedBignumFast: the loop state is (d, b, m, n, sb, tb) *)

\* a - product, product being the outcome of q.mul_ref(..)
sub_of(N, a, product) ==
    IF ~IsOk(product) THEN Panic ELSE s_sub_ref(N, a, product.val)

\* (d, b) = (r, b): the divisor left in place
egcd_assign_kept(b, r, sb, tb, new_sb, new_tb) ==
    IF ~IsOk(new_sb) \/ ~IsOk(new_tb) THEN Panic
    ELSE Ok([d |-> r, b |-> b, m |-> sb, n |-> tb, sb |-> new_sb.val, tb |-> new_tb.val])

\* (sb, tb, m, n) = (.., .., sb, tb); (d, b) = (b, r)
egcd_assign(b, r, sb, tb, new_sb, new_tb) ==
    IF ~IsOk(new_sb) \/ ~IsOk(new_tb) THEN Panic
    ELSE Ok([d |-> b, b |-> r, m |-> sb, n |-> tb, sb |-> new_sb.val, tb |-> new_tb.val])

\* the loop body, qr being the outcome of d.div_with_remainder(&b)
egcd_step(N, st, qr) ==
    IF ~IsOk(qr) THEN Panic
    ELSE egcd_assign(st.b, qr.val.r, st.sb, st.tb,
                     sub_of(N, st.m, s_mul_ref(N, qr.val.q, st.sb)),
                     sub_of(N, st.n, s_mul_ref(N, qr.val.q, st.tb)))

\* while !b.is_zero() { .. } (d, m, n)
RECURSIVE egcd_loop(_, _)
egcd_loop(N, st) ==
    IF ~IsOk(st) THEN Panic
    ELSE IF is_zero(st.val.b) THEN Ok([g |-> st.val.d, m |-> st.val.m, n |-> st.val.n])
    ELSE egcd_loop(N, egcd_step(N, st.val, s_div_with_remainder(N, st.val.d, st.val.b)))

\* let (mut m, mut n, mut sb, mut tb) = (from(1), from(0), from(0), from(1))
egcd_init(d, b, one, nought) ==
    IF ~IsOk(one) \/ ~IsOk(nought) THEN Panic
    ELSE Ok([d |-> d, b |-> b, m |-> one.val, n |-> nought.val,
             sb |-> nought.val, tb |-> one.val])

egcd(N, d, b) == egcd_loop(N, egcd_init(d, b, s_from_i32(N, 1), s_from_i32(N, 0)))

-----------------------------------------------------------------------------
(* crypto::ecc::curve: EccCoordinate<N> wraps an UnsignedBignumFast<N>, the   *)
(* unsigned engine of digits and pos; a coordinate is modelled by its bn.     *)

\* From<SignedBignumFast<N>> for UnsignedBignumFast<N>: the magnitude is kept
unsigned_from_signed(value) == [digits |-> value.digits, pos |-> value.pos]

\* UnsignedBignumFast::mul_ref: schoolbook product, fatal when len(a) + len(b) > N
unsigned_mul_ref(N, a, b) == mul_ref(N, a, b)

\* UnsignedBignumFast::div_with_remainder: restoring binary division
unsigned_div_with_remainder(N, a, b) == div_with_remainder(N, a, b)

\* let (_, r) = self.bn.mul_ref(&rhs.bn).div_with_remainder(p), product being
\* the outcome of the multiplication
ecc_mul_ref(N, product, p) ==
    IF ~IsOk(product) THEN Panic
    ELSE remainder(unsigned_div_with_remainder(N, product.val, p))

\* if m.sign { m = m.add_ref(&p.clone().into()); m.sign = false; }
ecc_normalise(N, m, p) ==
    IF m.sign THEN set_sign(s_add_ref(N, m, signed(Ok(p), FALSE).val), FALSE) ELSE Ok(m)

\* the statements of div_ref after egcd returned e, m being the normalised
\* coefficient
ecc_div_tail(N, a, m, p) ==
    IF ~IsOk(m) THEN Panic
    ELSE ecc_mul_ref(N, unsigned_mul_ref(N, a, unsigned_from_signed(m.val)), p)

\* let (_, mut m, _) = egcd(rhs.bn.clone().into(), p.clone().into()), e being
\* the outcome of egcd
ecc_div_egcd(N, a, e, p) ==
    IF ~IsOk(e) THEN Panic ELSE ecc_div_tail(N, a, ecc_normalise(N, e.val.m, p), p)

ecc_div_ref(N, a, b, p) ==
    ecc_div_egcd(N, a, egcd(N, signed(Ok(b), FALSE).val, signed(Ok(p), FALSE).val), p)

-----------------------------------------------------------------------------
(* ubignum::UBignum<N>: N limbs of type u64, little-endian, and pos *)

\* the carry into word k of the sum of two u64
RECURSIVE u64_carry_into(_, _, _)
u64_carry_into(a, b, k) ==
    IF k = 0 THEN 0 ELSE (a[k - 1] + b[k - 1] + u64_carry_into(a, b, k - 1)) \div word

\* u64::overflowing_add: the wrapped sum and whether it wrapped
u64_overflowing_add(a, b) ==
    [res |-> [k \in 0..(LIMB_WORDS - 1) |-> (a[k] + b[k] + u64_carry_into(a, b, k)) % word],
     carry |-> u64_carry_into(a, b, LIMB_WORDS) = 1]

\* a small integer as u64
u64_from(n) == [k \in 0..(LIMB_WORDS - 1) |-> IF k = 0 THEN n ELSE 0]

u64_is_zero(a) == \A k \in 0..(LIMB_WORDS - 1) : a[k] = 0

\* From<u128>: digits[0] = value as u64, digits[1] = (value >> 64) as u64
u_from_u128(N, low, high) ==
    [digits |-> [i \in 0..(N - 1) |-> IF i = 0 THEN low ELSE IF i = 1 THEN high
                                      ELSE u64_from(0)],
     pos |-> IF u64_is_zero(high) THEN 0 ELSE 1]

\* for (left, right) in self.digits.iter_mut().rev().zip(rhs.digits.iter().rev()):
\* the state [digits, carry] after the limbs N - 1, N - 2, .., i
RECURSIVE u_add_loop(_, _, _, _)
u_add_loop(N, a, rhs, i) ==
    IF i = N THEN [digits |-> a.digits, carry |-> 0]
    ELSE LET prev == u_add_loop(N, a, rhs, i + 1)
             s1 == u64_overflowing_add(prev.digits[i], rhs.digits[i])
             s2 == u64_overflowing_add(s1.res, u64_from(prev.carry))
         IN [digits |-> [prev.digits EXCEPT ![i] = s2.res],
             carry |-> IF s1.carry \/ s2.carry THEN 1 ELSE 0]

\* self after the call, and the u8 returned
u_add_assign_ref(N, a, rhs) ==
    LET st == u_add_loop(N, a, rhs, 0)
    IN Ok([self |-> [a EXCEPT !.digits = st.digits], carry |-> st.carry])

\* AddAssign: Self::add_assign_ref(self, &rhs), the u8 dropped
u_add_assign(N, a, rhs) ==
    Ok([self |-> u_add_assign_ref(N, a, rhs).val.self])

\* the states of while !b.is_zero() { .. }, the first k of them: st, the state
\* after one iteration, after two, .. up to the state with b zero or the panic
RECURSIVE egcd_run(_, _, _)
egcd_run(N, st, k) ==
    IF k = 0 THEN <<>>
    ELSE IF ~IsOk(st) THEN <<Panic>>
    ELSE IF is_zero(st.val.b) THEN <<st>>
    ELSE <<st>> \o egcd_run(N, egcd_step(N, st.val,
                                         s_div_with_remainder(N, st.val.d, st.val.b)),
                            k - 1)

-----------------------------------------------------------------------------
(* Bignum: a Vec<u8> of digits, little-endian, modelled as a sequence whose  *)
(* k-th element is the digit of index k - 1.                                 *)

b_new == <<0>>

\* drop the zero bytes at the high end; an empty vector becomes [0]
RECURSIVE b_strip(_)
b_strip(v) ==
    IF v = <<>> THEN <<0>>
    ELSE IF v[Len(v)] = 0 THEN b_strip(SubSeq(v, 1, Len(v) - 1))
    ELSE v

\* the bytes value as u8, (value >> 8) as u8, ..: the first k of them
RECURSIVE b_u128_bytes(_, _)
b_u128_bytes(value, k) ==
    IF k = 0 THEN <<>> ELSE <<value % base>> \o b_u128_bytes(value \div base, k - 1)

b_from_u128(value) == b_strip(b_u128_bytes(value, U128_BYTES))

b_is_zero(v) == Len(v) = 1 /\ v[1] = 0

b_is_even(v) == v[1] % 2 = 0

\* Vec::resize(n, 0)
b_resize(v, n) == [k \in 1..n |-> IF k <= Len(v) THEN v[k] ELSE 0]

b_get_bit(v, bit) ==
    IF bit >= Len(v) * 8 THEN FALSE ELSE BitOf(v[bit \div 8 + 1], bit % 8)

b_set_bit(v, bit) ==
    LET w == IF bit >= Len(v) * 8 THEN b_resize(v, bit \div 8 + 1) ELSE v
    IN [w EXCEPT ![bit \div 8 + 1] = OrBit(@, bit % 8)]

b_unset_bit(v, bit) ==
    IF bit >= Len(v) * 8 THEN v
    ELSE [v EXCEPT ![bit \div 8 + 1] = ClearBit(@, bit % 8)]

\* the first position, from the high end, where two vectors of one length
\* differ; 0 when they agree
RECURSIVE b_first_diff(_, _, _)
b_first_diff(a, b, k) ==
    IF k = 0 THEN 0
    ELSE IF a[k] # b[k] THEN k
    ELSE b_first_diff(a, b, k - 1)

b_eq(a, b) ==
    IF Len(a) # Len(b) THEN FALSE ELSE b_first_diff(a, b, Len(a)) = 0

b_gt(a, b) ==
    IF Len(a) # Len(b) THEN Len(a) > Len(b)
    ELSE LET k == b_first_diff(a, b, Len(a))
         IN IF k = 0 THEN FALSE ELSE a[k] > b[k]

b_ge(a, b) ==
    IF Len(a) # Len(b) THEN Len(a) > Len(b)
    ELSE LET k == b_first_diff(a, b, Len(a))
         IN IF k = 0 THEN TRUE ELSE a[k] > b[k]

\* for i in 0..long.len(): the state [vec, carry] after the first k iterations
RECURSIVE b_sub_loop(_, _, _)
b_sub_loop(long, short, k) ==
    IF k = 0 THEN [vec |-> [j \in 1..Len(long) |-> 0], carry |-> 0]
    ELSE LET prev == b_sub_loop(long, short, k - 1)
             s1 == overflowing_sub(long[k], prev.carry)
             s2 == IF k - 1 < Len(short) THEN overflowing_sub(s1[1], short[k])
                   ELSE <<s1[1], 0>>
         IN [vec |-> [prev.vec EXCEPT ![k] = s2[1]], carry |-> s1[2] + s2[2]]

b_sub_ref(a, rhs) ==
    IF Len(a) < Len(rhs) THEN Panic
    ELSE IF b_gt(a, rhs) THEN Ok(b_strip(b_sub_loop(a, rhs, Len(a)).vec))
    ELSE Ok(b_strip(b_sub_loop(rhs, a, Len(rhs)).vec))

\* for b in self.0.iter_mut(): *b = (*b << shift) | carry, carry = *b >> (8 - shift);
\* the state [vec, carry] after the first k bytes
RECURSIVE b_shl_bits(_, _, _)
b_shl_bits(v, k, shift) ==
    IF k = 0 THEN [vec |-> v, carry |-> 0]
    ELSE LET prev == b_shl_bits(v, k - 1, shift)
         IN [vec |-> [prev.vec EXCEPT ![k] = ((v[k] * Pow2(shift)) % base) + prev.carry],
             carry |-> v[k] \div Pow2(DIGIT_BITS - shift)]

\* a shift of a u8 by 8 - 0 bits is an arithmetic overflow
b_shl(v, rhs) ==
    IF rhs % 8 = 0 THEN Overflow
    ELSE LET w == [k \in 1..(rhs \div 8) |-> 0] \o v \o <<0>>
         IN Ok(b_strip(b_shl_bits(w, Len(w), rhs % 8).vec))

\* for b in self.0.iter_mut().rev(): *b = (*b >> shift) | carry,
\* carry = *b << (8 - shift); the state [vec, carry] after the bytes Len(v), .., k
RECURSIVE b_shr_bits(_, _, _)
b_shr_bits(v, k, shift) ==
    IF k > Len(v) THEN [vec |-> v, carry |-> 0]
    ELSE LET prev == b_shr_bits(v, k + 1, shift)
         IN [vec |-> [prev.vec EXCEPT ![k] = (v[k] \div Pow2(shift)) + prev.carry],
             carry |-> (v[k] * Pow2(DIGIT_BITS - shift)) % base]

\* resize(len - rhs / 8) keeps the low bytes; a wrapped length cannot be allocated
b_shr(v, rhs) ==
    IF rhs \div 8 > Len(v) THEN Panic
    ELSE IF rhs \div 8 = Len(v) THEN Ok(b_strip(<<>>))
    ELSE IF rhs % 8 = 0 THEN Overflow
    ELSE Ok(b_strip(b_shr_bits(b_resize(v, Len(v) - rhs \div 8), 1, rhs % 8).vec))

\* for a_i in 0..p: row b_i of the product, st = [product, carry]
RECURSIVE b_mul_row(_, _, _, _, _)
b_mul_row(a, b, b_i, a_i, st) ==
    IF a_i = Len(a) THEN st
    ELSE LET tmp == st.product[a_i + b_i + 1] + st.carry + a[a_i + 1] * b[b_i + 1]
         IN b_mul_row(a, b, b_i, a_i + 1,
                      [product |-> [st.product EXCEPT ![a_i + b_i + 1] = tmp % base],
                       carry |-> tmp \div base])

\* the rows without product[b_i + p] = carry
RECURSIVE b_mul_rows_no_carry(_, _, _, _)
b_mul_rows_no_carry(a, b, b_i, product) ==
    IF b_i = Len(b) THEN product
    ELSE b_mul_rows_no_carry(a, b, b_i + 1,
                             b_mul_row(a, b, b_i, 0,
                                       [product |-> product, carry |-> 0]).product)

\* for b_i in 0..q: a row, then product[b_i + p] = carry
RECURSIVE b_mul_rows(_, _, _, _)
b_mul_rows(a, b, b_i, product) ==
    IF b_i = Len(b) THEN product
    ELSE LET row == b_mul_row(a, b, b_i, 0, [product |-> product, carry |-> 0])
         IN b_mul_rows(a, b, b_i + 1,
                       [row.product EXCEPT ![b_i + Len(a) + 1] = row.carry])

b_mul_ref(a, b) == b_strip(b_mul_rows(a, b, 0, [k \in 1..(Len(a) + Len(b)) |-> 0]))

\* remainder = remainder - rhs.clone(); quotient.set_bit(i)
b_div_pair(q, r) == IF ~IsOk(r) THEN Panic ELSE Ok([q |-> q, r |-> r.val])

b_div_shift_in(bit, r) ==
    IF ~IsOk(r) THEN Panic
    ELSE IF bit THEN Ok(b_set_bit(r.val, 0)) ELSE Ok(b_unset_bit(r.val, 0))

\* if remainder >= *rhs { .. }
b_div_reduce(rhs, i, q, r) ==
    IF ~IsOk(r) THEN Panic
    ELSE IF b_ge(r.val, rhs) THEN b_div_pair(b_set_bit(q, i), b_sub_ref(r.val, rhs))
    ELSE Ok([q |-> q, r |-> r.val])

b_div_step(n, rhs, i, q, r) ==
    b_div_reduce(rhs, i, q, b_div_shift_in(b_get_bit(n, i), b_shl(r, 1)))

\* the iterations i, i - 1, .., lo of for i in (0..n_len).rev()
RECURSIVE b_div_bits(_, _, _, _, _)
b_div_bits(n, rhs, i, lo, st) ==
    IF i < lo \/ ~IsOk(st) THEN st
    ELSE b_div_bits(n, rhs, i - 1, lo, b_div_step(n, rhs, i, st.val.q, st.val.r))

\* for i in (0..n_len).rev(), the bits of the bytes k, k - 1, .., 0
RECURSIVE b_div_loop(_, _, _, _)
b_div_loop(n, rhs, k, st) ==
    IF k < 0 \/ ~IsOk(st) THEN st
    ELSE b_div_loop(n, rhs, k - 1, b_div_bits(n, rhs, 8 * k + 7, 8 * k, st))

b_div_with_remainder(a, rhs) ==
    b_div_loop(a, rhs, Len(a) - 1, Ok([q |-> b_new, r |-> b_new]))

\* (_, t) = Bignum::mul_ref(&a, &b).div_with_remainder(&modulus)
b_mul_mod(a, b, modulus) == remainder(b_div_with_remainder(b_mul_ref(a, b), modulus))

RECURSIVE b_pow_mod_loop(_, _, _, _)
b_pow_mod_loop(b, exp, t, modulus) ==
    IF ~IsOk(b) \/ ~IsOk(exp) \/ ~IsOk(t) THEN Panic
    ELSE IF b_is_zero(exp.val) THEN remainder(b_div_with_remainder(t.val, modulus))
    ELSE b_pow_mod_loop(b_mul_mod(b.val, b.val, modulus),
                        b_shr(exp.val, 1),
                        IF ~b_is_even(exp.val) THEN b_mul_mod(t.val, b.val, modulus) ELSE t,
                        modulus)

b_pow_mod(a, exponent, modulus) ==
    b_pow_mod_loop(Ok(a), Ok(exponent), Ok(b_from_u128(1)), modulus)

-----------------------------------------------------------------------------
(* utils::gcd on UnsignedBignum, a Vec<u8> of digits like Bignum *)

\* UnsignedBignum::div_with_remainder: the statements of Bignum's, on digits
ub_div_with_remainder(a, rhs) == b_div_with_remainder(a, rhs)

\* UnsignedBignum::is_zero
ub_is_zero(v) == Len(v) = 1 /\ v[1] = 0

\* one pass of loop { .. }, qr being the outcome of a.div_with_remainder(&b):
\* the value returned, or the next (a, b)
gcd_pass(b, qr) ==
    IF ~IsOk(qr) THEN Panic
    ELSE IF ub_is_zero(qr.val.r) THEN Ok([returned |-> TRUE, a |-> b, b |-> b])
    ELSE Ok([returned |-> FALSE, a |-> b, b |-> qr.val.r])

\* the states of loop { .. }, the first k of them: st, the state after one
\* pass, after two, .. up to the pass that returned
RECURSIVE gcd_run(_, _)
gcd_run(st, k) ==
    IF k = 0 THEN <<>>
    ELSE IF ~IsOk(st) THEN <<Panic>>
    ELSE IF st.val.returned THEN <<st>>
    ELSE <<st>> \o gcd_run(gcd_pass(st.val.b, ub_div_with_remainder(st.val.a, st.val.b)),
                           k - 1)

-----------------------------------------------------------------------------
(* The calls: two operands are built by the constructors, then one operation *)
(* is applied to them.  pc is the position: "x" and "y" while the operands   *)
(* are built, "op" when both are there, "done" after the call returned or    *)
(* failed.  out records the last call: its name, its extra argument and its  *)
(* outcome.                                                                  *)

Unset == [kind |-> "unset"]

NoCall == [op |-> "none", arg |-> 0, res |-> Unset]

Init ==
    /\ cap \in Caps
    /\ x = Unset
    /\ y = Unset
    /\ out = NoCall
    /\ pc = "x"
    /\ sacc = szero(cap)
    /\ sout = NoCall
    /\ steps = 0

\* a constructor returned r: the value becomes the next operand, a failure ends the run
Load(op, r) ==
    /\ IF IsOk(r)
       THEN /\ x' = IF pc = "x" THEN r.val ELSE x
            /\ y' = IF pc = "y" THEN r.val ELSE y
            /\ pc' = IF pc = "x" THEN "y" ELSE "op"
            /\ out' = out
       ELSE /\ out' = [op |-> op, arg |-> 0, res |-> r]
            /\ pc' = "done"
            /\ UNCHANGED <<x, y>>
    /\ UNCHANGED <<cap, sacc, sout, steps>>

FromU128 ==
    /\ pc \in {"x", "y"}
    /\ \E v \in U128Inputs : Load("from_u128", from_u128(cap, v))

FromBigEndian ==
    /\ pc \in {"x", "y"}
    /\ \E s \in ByteSlices(cap) : Load("from_big_endian", from_big_endian(cap, s))

FromLittleEndian ==
    /\ pc \in {"x", "y"}
    /\ \E s \in ByteSlices(cap) : Load("from_little_endian", from_little_endian(cap, s))

TryFromHexString ==
    /\ pc \in {"x", "y"}
    /\ \E s \in HexInputs : Load("try_from_hex_string", try_from_hex_string(cap, s))

\* an operation on the operands x and y returned r
Call(op, arg, r) ==
    /\ out' = [op |-> op, arg |-> arg, res |-> r]
    /\ pc' = "done"
    /\ UNCHANGED <<cap, x, y, sacc, sout, steps>>

AddRef ==
    /\ pc = "op"
    /\ Call("add_ref", 0, add_ref(cap, x, y))

SubRef ==
    /\ pc = "op"
    /\ Call("sub_ref", 0, sub_ref(cap, x, y))

MulRef ==
    /\ pc = "op"
    /\ Call("mul_ref", 0, mul_ref(cap, x, y))

DivWithRemainder ==
    /\ pc = "op"
    /\ Call("div_with_remainder", 0, div_with_remainder(cap, x, y))

Compare ==
    /\ pc = "op"
    /\ Call("compare", 0,
            Ok([eq |-> eq(x, y), lt |-> lt(x, y), le |-> le(x, y), gt |-> gt(x, y),
                ge |-> ge(x, y), partial_cmp |-> partial_cmp(x, y)]))

\* base.pow_mod(exponent, &modulus) returned
PowModCall(b, e, m) ==
    /\ out' = [op |-> "pow_mod", arg |-> [b |-> b, e |-> e, m |-> m],
               res |-> pow_mod(cap, b, e, m)]
    /\ pc' = "done"
    /\ UNCHANGED <<cap, x, y, sacc, sout, steps>>

\* pow_mod on three values imported from byte slices
PowMod ==
    /\ pc = "x"
    /\ \E bs \in PowBases, es \in PowExponents, ms \in PowModuli :
          /\ Len(bs) <= cap /\ Len(es) <= cap /\ Len(ms) <= cap
          /\ PowModCall(from_little_endian(cap, bs).val,
                        from_little_endian(cap, es).val,
                        from_little_endian(cap, ms).val)

Next ==
    \/ FromU128
    \/ FromBigEndian
    \/ FromLittleEndian
    \/ TryFromHexString
    \/ AddRef
    \/ SubRef
    \/ MulRef
    \/ DivWithRemainder
    \/ Compare
    \/ PowMod

Spec == Init /\ [][Next]_vars

-----------------------------------------------------------------------------
(* The signed calls: a SignedBignumFast<LargeCap> value is built by          *)
(* From<i128>, then up to MaxSteps operations are applied to it in turn,     *)
(* each taking its other operands from From<i128>.  sacc is the value held,  *)
(* sout the last call (name, arguments, outcome), steps the number of calls  *)
(* made.  A panic ends the run.                                              *)

InitSigned ==
    /\ Init
    /\ cap = LargeCap

SFromI128 ==
    /\ sout = NoCall
    /\ \E v \in I128Inputs :
          /\ sout' = [op |-> "from_i128", arg |-> v, res |-> s_from_i128(cap, v)]
          /\ sacc' = s_from_i128(cap, v).val
    /\ UNCHANGED <<cap, x, y, out, pc, steps>>

\* the run goes on: a value is held, the last call returned, calls are left
Running == sout # NoCall /\ IsOk(sout.res) /\ steps < MaxSteps

\* a call returned r, and next is the value the caller goes on with
SCall(op, arg, r, next) ==
    /\ sout' = [op |-> op, arg |-> arg, res |-> r]
    /\ sacc' = IF IsOk(r) THEN next ELSE sacc
    /\ steps' = steps + 1
    /\ UNCHANGED <<cap, x, y, out, pc>>

\* the value of a call that returns one value
Kept(r) == IF IsOk(r) THEN r.val ELSE Unset

SAdd ==
    /\ Running
    /\ \E v \in I128Inputs :
          SCall("add", v, s_add_ref(cap, sacc, s_from_i128(cap, v).val),
                Kept(sout'.res))

SSub ==
    /\ Running
    /\ \E v \in I128Inputs :
          SCall("sub", v, s_sub_ref(cap, sacc, s_from_i128(cap, v).val),
                Kept(sout'.res))

SMulRef ==
    /\ Running
    /\ \E v \in I128Inputs :
          SCall("mul_ref", v, s_mul_ref(cap, sacc, s_from_i128(cap, v).val),
                Kept(sout'.res))

\* the caller keeps the quotient or the remainder
SDivWithRemainder ==
    /\ Running
    /\ \E v \in I128Inputs, keep \in {"q", "r"} :
          SCall("div_with_remainder", v,
                s_div_with_remainder(cap, sacc, s_from_i128(cap, v).val),
                IF IsOk(sout'.res) THEN sout'.res.val[keep] ELSE Unset)

SPowMod ==
    /\ Running
    /\ \E e \in I128Exponents, m \in I128Inputs :
          SCall("pow_mod", [e |-> e, m |-> m],
                s_pow_mod(cap, sacc, s_from_i128(cap, e).val, s_from_i128(cap, m).val),
                Kept(sout'.res))

SShl ==
    /\ Running
    /\ \E k \in ShiftInputs : SCall("shl", k, s_shl(cap, sacc, k), Kept(sout'.res))

SShr ==
    /\ Running
    /\ \E k \in ShiftInputs : SCall("shr", k, s_shr(cap, sacc, k), Kept(sout'.res))

SSetBit ==
    /\ Running
    /\ \E k \in BitInputs : SCall("set_bit", k, set_bit(cap, sacc, k), Kept(sout'.res))

SUnsetBit ==
    /\ Running
    /\ \E k \in BitInputs : SCall("unset_bit", k, unset_bit(cap, sacc, k), Kept(sout'.res))

SToggleBit ==
    /\ Running
    /\ \E k \in BitInputs : SCall("toggle_bit", k, toggle_bit(cap, sacc, k), Kept(sout'.res))

NextSigned ==
    \/ SFromI128
    \/ SAdd
    \/ SSub
    \/ SMulRef
    \/ SDivWithRemainder
    \/ SPowMod
    \/ SShl
    \/ SShr
    \/ SSetBit
    \/ SUnsetBit
    \/ SToggleBit

SpecSigned == InitSigned /\ [][NextSigned]_vars

-----------------------------------------------------------------------------
(* The signed pairs: two SignedBignumFast<LargeCap> operands x and y are     *)
(* built by From<i128> or from_little_endian, then one operation is applied  *)
(* to them; pc and out are used as for the unsigned calls.                   *)

InitPair ==
    /\ Init
    /\ cap = LargeCap

PairFromI128 ==
    /\ pc \in {"x", "y"}
    /\ \E v \in PairInputs : Load("from_i128", s_from_i128(cap, v))

PairFromLittleEndian ==
    /\ pc \in {"x", "y"}
    /\ \E s \in PairSlices(cap) : Load("from_little_endian", s_from_little_endian(cap, s))

Egcd ==
    /\ pc = "op"
    /\ Call("egcd", 0, egcd(cap, x, y))

\* x + y
PairAdd ==
    /\ pc = "op"
    /\ Call("add", 0, s_add_ref(cap, x, y))

\* x - y
PairSub ==
    /\ pc = "op"
    /\ Call("sub", 0, s_sub_ref(cap, x, y))

\* x.div_with_remainder(&y)
PairDiv ==
    /\ pc = "op"
    /\ Call("div_with_remainder", 0, s_div_with_remainder(cap, x, y))

\* x == y and x.partial_cmp(&y)
PairCompare ==
    /\ pc = "op"
    /\ Call("compare", 0, Ok([eq |-> s_eq(x, y), partial_cmp |-> s_partial_cmp(x, y)]))

\* field primes: 101 and 257, and 2^127 - 1, which takes sixteen digits
EccPrimes(N) ==
    {from_u128(N, 101).val, from_u128(N, 257).val,
     from_little_endian(N, [i \in 1..16 |-> IF i = 16 THEN 127 ELSE 255]).val}

\* EccCoordinate::div_ref(&x, &y, &p) for field elements x in [0, p) and y in [1, p)
EccDivRef ==
    /\ pc = "op"
    /\ ~x.sign /\ ~y.sign /\ ~is_zero(y)
    /\ \E p \in EccPrimes(cap) :
          /\ lt(x, p) /\ lt(y, p)
          /\ Call("div_ref", p, ecc_div_ref(cap, unsigned_from_signed(x),
                                            unsigned_from_signed(y), p))

NextPair ==
    \/ PairFromI128
    \/ PairFromLittleEndian
    \/ Egcd
    \/ PairAdd
    \/ PairSub
    \/ PairDiv
    \/ PairCompare
    \/ EccDivRef

SpecPair == InitPair /\ [][NextPair]_vars

-----------------------------------------------------------------------------
(* The calls on one value: x is built by a constructor, then one operation   *)
(* is applied to it (pc = "y": x is there and y is not).                     *)

\* BignumFast::try_from_hex_string(&x.to_hex_string())
HexRoundTrip ==
    /\ pc = "y"
    /\ Call("hex_round_trip", to_hex_string(cap, x),
            try_from_hex_string(cap, to_hex_string(cap, x)))

\* x >> k
ShiftRight ==
    /\ pc = "y"
    /\ \E k \in ShiftDistances : Call("shr", k, shr(cap, x, k))

\* x << k
ShiftLeft ==
    /\ pc = "y"
    /\ \E k \in ShiftDistances : Call("shl", k, shl(cap, x, k))

\* BignumFast::from_big_endian(slice), the slice kept with the outcome
ImportBigEndian ==
    /\ pc = "x"
    /\ \E s \in ByteSlices(cap) : Call("import_big_endian", s, from_big_endian(cap, s))

\* BignumFast::from_little_endian(slice), the slice kept with the outcome
ImportLittleEndian ==
    /\ pc = "x"
    /\ \E s \in ByteSlices(cap) : Call("import_little_endian", s, from_little_endian(cap, s))

\* BignumFast::try_from_hex_string(str), the string kept with the outcome
ImportHex ==
    /\ pc = "x"
    /\ \E s \in HexCallInputs(cap) : Call("import_hex", s, try_from_hex_string(cap, s))

\* x.set_bit(bit)
SetBit ==
    /\ pc = "y"
    /\ \E bit \in BitIndices(cap) : Call("set_bit", bit, set_bit(cap, x, bit))

\* x.unset_bit(bit)
UnsetBit ==
    /\ pc = "y"
    /\ \E bit \in BitIndices(cap) : Call("unset_bit", bit, unset_bit(cap, x, bit))

\* x.toggle_bit(bit)
ToggleBit ==
    /\ pc = "y"
    /\ \E bit \in BitIndices(cap) : Call("toggle_bit", bit, toggle_bit(cap, x, bit))

NextUnary ==
    \/ FromU128
    \/ FromBigEndian
    \/ FromLittleEndian
    \/ TryFromHexString
    \/ HexRoundTrip
    \/ ShiftRight
    \/ ShiftLeft
    \/ ImportBigEndian
    \/ ImportLittleEndian
    \/ ImportHex
    \/ SetBit
    \/ UnsetBit
    \/ ToggleBit

SpecUnary == Init /\ [][NextUnary]_vars

-----------------------------------------------------------------------------
(* examples/bignum_rsa.rs: a key (n = p * q, e, d) is chosen, a message      *)
(* below n is built, enc is applied to it and dec to the cipher.  x holds    *)
(* the key, y the message, out the last call.                                *)

\* the private exponent that goes with e: e * d = 1 mod phi
HasInverse(e, phi) == \E d \in 1..(phi - 1) : (e * d) % phi = 1

Inverse(e, phi) == CHOOSE d \in 1..(phi - 1) : (e * d) % phi = 1

RsaKey ==
    /\ pc = "x"
    /\ \E p \in RsaPrimes, q \in RsaPrimes, e \in RsaExponents :
          /\ p < q
          /\ HasInverse(e, (p - 1) * (q - 1))
          /\ x' = [p |-> p, q |-> q,
                   n |-> b_mul_ref(b_from_u128(p), b_from_u128(q)),
                   e |-> b_from_u128(e),
                   d |-> b_from_u128(Inverse(e, (p - 1) * (q - 1)))]
    /\ pc' = "y"
    /\ UNCHANGED <<cap, y, out, sacc, sout, steps>>

RsaMessage ==
    /\ pc = "y"
    /\ \E m \in 0..(x.p * x.q - 1) : y' = b_from_u128(m)
    /\ pc' = "op"
    /\ UNCHANGED <<cap, x, out, sacc, sout, steps>>

\* enc(msg, pub_exp, n)
RsaEnc ==
    /\ pc = "op"
    /\ out' = [op |-> "enc", arg |-> y, res |-> b_pow_mod(y, x.e, x.n)]
    /\ pc' = IF IsOk(out'.res) THEN "dec" ELSE "done"
    /\ UNCHANGED <<cap, x, y, sacc, sout, steps>>

\* dec(cip, priv_exp, n)
RsaDec ==
    /\ pc = "dec"
    /\ out' = [op |-> "dec", arg |-> out.res.val, res |-> b_pow_mod(out.res.val, x.d, x.n)]
    /\ pc' = "done"
    /\ UNCHANGED <<cap, x, y, sacc, sout, steps>>

NextRsa ==
    \/ RsaKey
    \/ RsaMessage
    \/ RsaEnc
    \/ RsaDec

SpecRsa == InitPair /\ [][NextRsa]_vars

-----------------------------------------------------------------------------
(* The heap Bignum calls: x and y are built by Bignum::from(u128), then one  *)
(* operation is applied; cap is not used by the heap type.                   *)

InitBignum ==
    /\ Init
    /\ cap = LargeCap

BignumFromU128 ==
    /\ pc \in {"x", "y"}
    /\ \E v \in BignumInputs : Load("b_from_u128", Ok(b_from_u128(v)))

\* x - y
BignumSub ==
    /\ pc = "op"
    /\ Call("b_sub_ref", 0, b_sub_ref(x, y))

\* x >> k
BignumShr ==
    /\ pc = "op"
    /\ \E k \in ShiftDistances : Call("b_shr", k, b_shr(x, k))

NextBignum ==
    \/ BignumFromU128
    \/ BignumSub
    \/ BignumShr

SpecBignum == InitBignum /\ [][NextBignum]_vars

-----------------------------------------------------------------------------
(* mul_ref step by step: x and y are built, then x.mul_ref(&y) runs one      *)
(* inner iteration at a time.  sout holds the locals of the loops (b_i, a_i, *)
(* the digits of the product, carry, pos_last_non_zero and the last tmp),    *)
(* steps counts the digits computed, out the outcome of the call.            *)

\* the capacity test, then let mut bignum = BignumFast::new()
MulBegin ==
    /\ pc = "op"
    /\ IF mul_fits(cap, x, y)
       THEN /\ sout' = [b_i |-> 0, a_i |-> 0, digits |-> new(cap).digits, carry |-> 0,
                        pos_last_non_zero |-> 0, tmp |-> 0]
            /\ pc' = "inner"
            /\ out' = out
       ELSE /\ out' = [op |-> "mul_ref", arg |-> steps, res |-> Panic]
            /\ pc' = "done"
            /\ sout' = sout
    /\ UNCHANGED <<cap, x, y, sacc, steps>>

\* one iteration of for a_i in 0..p
MulInner ==
    /\ pc = "inner"
    /\ sout.a_i < len(x)
    /\ LET tmp == mul_tmp(sout.digits[sout.a_i + sout.b_i], sout.carry,
                          x.digits[sout.a_i], y.digits[sout.b_i])
       IN IF tmp >= Pow2(2 * DIGIT_BITS)
          THEN /\ out' = [op |-> "mul_ref", arg |-> steps, res |-> Overflow]
               /\ pc' = "done"
               /\ UNCHANGED <<sout, steps>>
          ELSE /\ sout' = [sout EXCEPT !.digits[sout.a_i + sout.b_i] = tmp % base,
                                       !.carry = mul_carry(tmp),
                                       !.pos_last_non_zero =
                                           IF tmp % base # 0 THEN sout.a_i + sout.b_i ELSE @,
                                       !.a_i = @ + 1,
                                       !.tmp = tmp]
               /\ steps' = steps + 1
               /\ UNCHANGED <<out, pc>>
    /\ UNCHANGED <<cap, x, y, sacc>>

\* the end of a row: digits[b_i + p] = carry as u8; after the last row the
\* product is returned with pos = pos_last_non_zero
MulRowEnd ==
    /\ pc = "inner"
    /\ sout.a_i = len(x)
    /\ LET digits == [sout.digits EXCEPT ![sout.b_i + len(x)] = sout.carry % base]
           pos == IF sout.carry # 0 THEN sout.b_i + len(x) ELSE sout.pos_last_non_zero
       IN /\ sout' = [sout EXCEPT !.digits = digits, !.pos_last_non_zero = pos,
                                  !.b_i = @ + 1, !.a_i = 0, !.carry = 0]
          /\ IF sout.b_i + 1 = len(y)
             THEN /\ out' = [op |-> "mul_ref", arg |-> steps,
                             res |-> Ok([digits |-> digits, pos |-> pos])]
                  /\ pc' = "done"
             ELSE UNCHANGED <<out, pc>>
    /\ UNCHANGED <<cap, x, y, sacc, steps>>

NextMul ==
    \/ FromU128
    \/ FromLittleEndian
    \/ MulBegin
    \/ MulInner
    \/ MulRowEnd

SpecMul == Init /\ [][NextMul]_vars

-----------------------------------------------------------------------------
(* The UBignum calls: x and y are built by From<u128>, then x.add_assign_ref *)
(* (&y) or x += y is applied.                                                *)

InitLimb ==
    /\ cap = LimbCap
    /\ x = Unset
    /\ y = Unset
    /\ out = NoCall
    /\ pc = "x"
    /\ sacc = szero(cap)
    /\ sout = NoCall
    /\ steps = 0

UFromU128 ==
    /\ pc \in {"x", "y"}
    /\ \E low \in LimbInputs, high \in LimbInputs :
          Load("u_from_u128", Ok(u_from_u128(cap, low, high)))

UAddAssignRef ==
    /\ pc = "op"
    /\ Call("add_assign_ref", 0, u_add_assign_ref(cap, x, y))

UAddAssign ==
    /\ pc = "op"
    /\ Call("add_assign", 0, u_add_assign(cap, x, y))

NextLimb ==
    \/ UFromU128
    \/ UAddAssignRef
    \/ UAddAssign

SpecLimb == InitLimb /\ [][NextLimb]_vars

-----------------------------------------------------------------------------
(* egcd and gcd one loop iteration at a time.  When a call is entered its    *)
(* arguments are chosen and the states its loop goes through are computed,   *)
(* MaxEuclid of them at most; sout holds them with the index of the current  *)
(* one, each iteration moves to the next, steps counts the iterations and    *)
(* out receives what the call returned.                                      *)

EgcdInputs(N) ==
    {s_from_i128(N, v).val : v \in PairInputs}
        \cup {s_from_little_endian(N, s).val : s \in PairSlices(N)}

\* the loop state of the call, or the panic that ended it
Current == sout.run[sout.i]

\* egcd(d, b) is called: the four coefficients are initialised
EgcdBegin ==
    /\ pc = "x"
    /\ \E d \in EgcdInputs(cap), b \in EgcdInputs(cap) :
          /\ x' = d
          /\ y' = b
          /\ sout' = [run |-> egcd_run(cap, egcd_init(d, b, s_from_i32(cap, 1),
                                                      s_from_i32(cap, 0)), MaxEuclid),
                      i |-> 1]
    /\ pc' = "egcd"
    /\ UNCHANGED <<cap, out, sacc, steps>>

\* one iteration of while !b.is_zero() { .. }: the assignments, or a panic
EgcdIterate ==
    /\ pc = "egcd"
    /\ ~is_zero(Current.val.b)
    /\ sout.i < Len(sout.run)
    /\ IF IsOk(sout.run[sout.i + 1])
       THEN /\ sout' = [sout EXCEPT !.i = @ + 1]
            /\ steps' = steps + 1
            /\ UNCHANGED <<out, pc>>
       ELSE /\ out' = [op |-> "egcd", arg |-> steps, res |-> Panic]
            /\ pc' = "done"
            /\ UNCHANGED <<sout, steps>>
    /\ UNCHANGED <<cap, x, y, sacc>>

\* b.is_zero(): (d, m, n) is returned
EgcdReturn ==
    /\ pc = "egcd"
    /\ is_zero(Current.val.b)
    /\ out' = [op |-> "egcd", arg |-> steps,
               res |-> Ok([g |-> Current.val.d, m |-> Current.val.m, n |-> Current.val.n])]
    /\ pc' = "done"
    /\ UNCHANGED <<cap, x, y, sacc, sout, steps>>

\* gcd(a, b) is called
GcdBegin ==
    /\ pc = "x"
    /\ \E a \in BignumInputs, b \in BignumInputs :
          sout' = [run |-> gcd_run(Ok([returned |-> FALSE, a |-> b_from_u128(a),
                                       b |-> b_from_u128(b)]), MaxEuclid),
                   i |-> 1]
    /\ pc' = "gcd"
    /\ UNCHANGED <<cap, x, y, out, sacc, steps>>

\* one pass of loop { .. }: b is returned, or a and b are assigned
GcdIterate ==
    /\ pc = "gcd"
    /\ sout.i < Len(sout.run)
    /\ IF IsOk(sout.run[sout.i + 1]) /\ ~sout.run[sout.i + 1].val.returned
       THEN /\ sout' = [sout EXCEPT !.i = @ + 1]
            /\ steps' = steps + 1
            /\ UNCHANGED <<out, pc>>
       ELSE /\ out' = [op |-> "gcd", arg |-> steps,
                       res |-> IF IsOk(sout.run[sout.i + 1])
                               THEN Ok(sout.run[sout.i + 1].val.b) ELSE Panic]
            /\ pc' = "done"
            /\ UNCHANGED <<sout, steps>>
    /\ UNCHANGED <<cap, x, y, sacc>>

NextEuclid ==
    \/ EgcdBegin
    \/ EgcdIterate
    \/ EgcdReturn
    \/ GcdBegin
    \/ GcdIterate

\* a call that was entered keeps executing its loop
SpecEuclid ==
    /\ InitPair
    /\ [][NextEuclid]_vars
    /\ WF_vars(EgcdIterate) /\ WF_vars(EgcdReturn) /\ WF_vars(GcdIterate)

-----------------------------------------------------------------------------
(* div_with_remainder step by step: x and y are built, then                  *)
(* x.div_with_remainder(&y) runs one iteration at a time.  sout holds q, r   *)
(* and i, the bit index of the last iteration done (n_len before the first). *)

\* let mut q = new(); let mut r = new(); n_len = self.len() * 8
DivBegin ==
    /\ pc = "op"
    /\ sout' = [q |-> new(cap), r |-> new(cap), i |-> len(x) * 8]
    /\ pc' = "loop"
    /\ UNCHANGED <<cap, x, y, out, sacc, steps>>

\* the outcome st of one iteration of for i in (0..n_len).rev()
DivIterated(st) ==
    IF IsOk(st)
    THEN /\ sout' = [q |-> st.val.q, r |-> st.val.r, i |-> sout.i - 1]
         /\ UNCHANGED <<out, pc>>
    ELSE /\ out' = [op |-> "div_with_remainder", arg |-> sout.i - 1, res |-> Panic]
         /\ pc' = "done"
         /\ sout' = sout

DivIterate ==
    /\ pc = "loop"
    /\ sout.i > 0
    /\ DivIterated(div_step(cap, x, y, sout.i - 1, sout.q, sout.r))
    /\ UNCHANGED <<cap, x, y, sacc, steps>>

\* (q, r)
DivReturn ==
    /\ pc = "loop"
    /\ sout.i = 0
    /\ out' = [op |-> "div_with_remainder", arg |-> 0,
               res |-> Ok([q |-> sout.q, r |-> sout.r])]
    /\ pc' = "done"
    /\ UNCHANGED <<cap, x, y, sacc, sout, steps>>

NextDiv ==
    \/ FromU128
    \/ FromLittleEndian
    \/ DivBegin
    \/ DivIterate
    \/ DivReturn

SpecDiv == Init /\ [][NextDiv]_vars

-----------------------------------------------------------------------------
(* The integer a value stands for *)

\* Invariants B and C: pos is the index of the most significant nonzero digit
\* (0 for zero) and every digit above pos is zero
Canonical(N, a) ==
    /\ a.pos \in 0..(N - 1)
    /\ \A i \in 0..(N - 1) : i > a.pos => a.digits[i] = 0
    /\ a.pos > 0 => a.digits[a.pos] # 0

\* number of significant bits of a canonical value
RECURSIVE BitLenByte(_)
BitLenByte(d) == IF d = 0 THEN 0 ELSE 1 + BitLenByte(d \div 2)

BitLen(a) == 8 * a.pos + BitLenByte(a.digits[a.pos])

\* Invariant A: value = sum of digits[i] * 256^i for i in 0..=pos
RECURSIVE Horner(_, _, _)
Horner(digits, i, acc) ==
    IF i < 0 THEN acc ELSE Horner(digits, i - 1, acc * base + digits[i])

Val(a) == Horner(a.digits, a.pos, 0)

\* the integers the model checker can hold: below 2^31
Native(a) == BitLen(a) <= 31

\* number of base-256 digits the integer v needs (one for zero)
RECURSIVE DigitsNeeded(_)
DigitsNeeded(v) == IF v < base THEN 1 ELSE 1 + DigitsNeeded(v \div base)

IsSet(v) == "digits" \in DOMAIN v

\* both operands of the last call are canonical and small enough to be compared
\* with the integers of the model checker
CanonicalOperands ==
    /\ Canonical(cap, x) /\ Canonical(cap, y)
    /\ BitLen(x) <= 30 /\ BitLen(y) <= 30

\* a returned value r stands for the integer v
Returns(r, v) == IsOk(r) /\ Native(r.val) /\ Val(r.val) = v

-----------------------------------------------------------------------------
(* Claims *)

\* C1: every value returned by From<u128>, from_big_endian, from_little_endian,
\* try_from_hex_string, add_ref, sub_ref, mul_ref or div_with_remainder (nonzero
\* divisor) on canonical operands is canonical: pos is the index of the most
\* significant nonzero digit (0 for zero) and every digit above pos is zero.
C1_ReturnedValuesCanonical ==
    /\ IsSet(x) => Canonical(cap, x)
    /\ IsSet(y) => Canonical(cap, y)
    /\ (/\ out.op \in {"add_ref", "sub_ref", "mul_ref"}
        /\ Canonical(cap, x) /\ Canonical(cap, y)
        /\ IsOk(out.res))
       => Canonical(cap, out.res.val)
    /\ (/\ out.op = "div_with_remainder"
        /\ Canonical(cap, x) /\ Canonical(cap, y) /\ ~is_zero(y)
        /\ IsOk(out.res))
       => Canonical(cap, out.res.val.q) /\ Canonical(cap, out.res.val.r)

\* a signed value that is a negative zero: sign set, every digit zero
NegativeZero(v) == v.sign /\ \A i \in DOMAIN v.digits : v.digits[i] = 0

\* C2: after any sequence of SignedBignumFast operations (From<i128>, +, -,
\* mul_ref, div_with_remainder, pow_mod, <<, >>, set_bit, unset_bit, toggle_bit)
\* on values built by the constructors, no value has sign = true while its
\* magnitude is zero.
C2_NoNegativeZero ==
    /\ ~NegativeZero(sacc)
    /\ (sout.op = "div_with_remainder" /\ IsOk(sout.res))
       => ~NegativeZero(sout.res.val.q) /\ ~NegativeZero(sout.res.val.r)

\* C3: for canonical a and b, add_ref returns exactly a + b when the sum fits in
\* N digits and panics when the sum needs N + 1 digits; never a truncated sum.
C3_AddExactOrPanic ==
    (out.op = "add_ref" /\ CanonicalOperands) =>
        IF DigitsNeeded(Val(x) + Val(y)) <= cap
        THEN Returns(out.res, Val(x) + Val(y))
        ELSE out.res.kind = "panic"

\* C3 witness: an addition of canonical operands whose sum needs N + 1 digits
C3_Witness ==
    /\ out.op = "add_ref" /\ CanonicalOperands
    /\ DigitsNeeded(Val(x) + Val(y)) = cap + 1
    /\ out.res.kind = "panic"

\* C4: for canonical a and b, sub_ref panics when a < b, returns canonical zero
\* when a = b, and returns exactly a - b otherwise.
C4_SubExactOrPanic ==
    (out.op = "sub_ref" /\ CanonicalOperands) =>
        IF Val(x) < Val(y) THEN out.res.kind = "panic"
        ELSE IF Val(x) = Val(y) THEN IsOk(out.res) /\ out.res.val = zero(cap)
        ELSE Returns(out.res, Val(x) - Val(y))

\* C4 witness: a subtraction with a borrow across digits, a > b
C4_Witness ==
    /\ out.op = "sub_ref" /\ CanonicalOperands
    /\ Val(x) > Val(y) /\ x.digits[0] < y.digits[0]
    /\ Returns(out.res, Val(x) - Val(y))

\* C5: div_with_remainder(a, 0) panics for every dividend a, a = 0 included, in
\* BignumFast and in SignedBignumFast; it never returns a pair for a zero divisor.
C5_DivByZeroPanics ==
    /\ (out.op = "div_with_remainder" /\ Canonical(cap, x) /\ is_zero(y))
       => out.res.kind = "panic"
    /\ (sout.op = "div_with_remainder" /\ sout.arg = 0)
       => sout.res.kind = "panic"

\* C6: for canonical a and nonzero canonical b, div_with_remainder returns (q, r)
\* with a = q * b + r and 0 <= r < b: q = floor(a / b), r = a mod b.
C6_DivIdentity ==
    (out.op = "div_with_remainder" /\ CanonicalOperands /\ ~is_zero(y)) =>
        /\ IsOk(out.res)
        /\ Native(out.res.val.q) /\ Val(out.res.val.q) = Val(x) \div Val(y)
        /\ Native(out.res.val.r) /\ Val(out.res.val.r) = Val(x) % Val(y)

\* C6 witness: a division with a quotient of more than one digit and a remainder
C6_Witness ==
    /\ out.op = "div_with_remainder" /\ CanonicalOperands /\ ~is_zero(y)
    /\ IsOk(out.res)
    /\ out.res.val.q.pos > 0 /\ ~is_zero(out.res.val.r)

\* C7: for canonical a and b with len(a) + len(b) <= N, mul_ref returns a * b and
\* the pos it records is the index of the most significant nonzero digit of the
\* product (0 when either operand is zero).
C7_MulExact ==
    (/\ out.op = "mul_ref" /\ CanonicalOperands
     /\ len(x) + len(y) <= cap /\ BitLen(x) + BitLen(y) <= 31) =>
        /\ Returns(out.res, Val(x) * Val(y))
        /\ out.res.val.pos = DigitsNeeded(Val(x) * Val(y)) - 1
        /\ \A i \in 0..(cap - 1) : i > out.res.val.pos => out.res.val.digits[i] = 0

\* C7 witness: a product of two-digit operands whose last row ends in a carry
C7_Witness ==
    /\ out.op = "mul_ref" /\ CanonicalOperands
    /\ x.pos > 0 /\ y.pos > 0 /\ BitLen(x) + BitLen(y) <= 31
    /\ IsOk(out.res) /\ out.res.val.pos = x.pos + y.pos + 1

\* C8: for canonical a and b, eq, lt, le, gt, ge and partial_cmp answer as the
\* comparison of the integers a and b does.
C8_ComparisonAgrees ==
    (out.op = "compare" /\ CanonicalOperands) =>
        LET c == out.res.val
        IN /\ c.eq = (Val(x) = Val(y))
           /\ c.lt = (Val(x) < Val(y))
           /\ c.le = (Val(x) <= Val(y))
           /\ c.gt = (Val(x) > Val(y))
           /\ c.ge = (Val(x) >= Val(y))
           /\ c.partial_cmp = cmp(Val(x), Val(y))

\* C8 witness: two different values of the same length that differ in a low digit
C8_Witness ==
    /\ out.op = "compare" /\ CanonicalOperands
    /\ x.pos = y.pos /\ x.pos > 0 /\ x.digits[x.pos] = y.digits[y.pos]
    /\ Val(x) < Val(y) /\ out.res.val.partial_cmp = "Less"

\* naive repeated multiply-and-reduce: b^e mod m
RECURSIVE NaivePowMod(_, _, _)
NaivePowMod(b, e, m) == IF e = 0 THEN 1 % m ELSE (NaivePowMod(b, e - 1, m) * b) % m

\* the operands of the last pow_mod: canonical, the modulus at least 1, no
\* intermediate product beyond the capacity, and the naive computation within
\* the integers of the model checker
PowModOperands ==
    /\ out.op = "pow_mod"
    /\ Canonical(cap, out.arg.b) /\ Canonical(cap, out.arg.e) /\ Canonical(cap, out.arg.m)
    /\ ~is_zero(out.arg.m)
    /\ 2 * len(out.arg.b) <= cap /\ 2 * len(out.arg.m) <= cap
    /\ BitLen(out.arg.b) + BitLen(out.arg.m) <= 31 /\ out.arg.e.pos = 0

\* C9: for every base b, exponent e >= 0 and modulus m >= 1 with
\* 2 * max(len(b), len(m)) <= N, pow_mod(b, e, m) returns b^e mod m as naive
\* repeated multiply-and-reduce computes it; pow_mod(4, 13, 497) = 445 and
\* pow_mod(b, 0, m) = 1 mod m.
C9_PowModCorrect ==
    PowModOperands =>
        Returns(out.res, NaivePowMod(Val(out.arg.b), Val(out.arg.e), Val(out.arg.m)))

\* what remains of C9 where From<u128> has room for its sixteen bytes
C9_PowModCorrectFromU128Bytes ==
    (PowModOperands /\ cap >= U128_BYTES) =>
        Returns(out.res, NaivePowMod(Val(out.arg.b), Val(out.arg.e), Val(out.arg.m)))

\* pow_mod(4, 13, 497) = 445 was computed
C9_Example ==
    /\ PowModOperands
    /\ Val(out.arg.b) = 4 /\ Val(out.arg.e) = 13 /\ Val(out.arg.m) = 497
    /\ Returns(out.res, 445)

\* C10: pow_mod(base, exp, m) with m = 0 panics for every base and exponent, in
\* BignumFast and in SignedBignumFast; it never returns a value.
C10_PowModZeroModulusPanics ==
    /\ (out.op = "pow_mod" /\ Canonical(cap, out.arg.b) /\ Canonical(cap, out.arg.e)
        /\ is_zero(out.arg.m))
       => out.res.kind = "panic"
    /\ (sout.op = "pow_mod" /\ sout.arg.m = 0) => sout.res.kind = "panic"

\* what the unsigned pow_mod does return for a zero modulus where From<u128>
\* has room: 1 for the exponent zero
C10_ReturnsOne ==
    /\ out.op = "pow_mod" /\ is_zero(out.arg.m) /\ is_zero(out.arg.e)
    /\ Returns(out.res, 1)

\* the integer a signed value stands for
SVal(a) == IF a.sign THEN 0 - Val(a) ELSE Val(a)

\* both signed operands are small enough for their products to be compared with
\* the integers of the model checker
SmallPair == BitLen(x) <= 15 /\ BitLen(y) <= 15

\* the last call was egcd(x, y) on nonzero operands
EgcdOperands == out.op = "egcd" /\ ~is_zero(x) /\ ~is_zero(y)

\* a*m + b*n = g and g divides a and b
Bezout(a, b, r) ==
    /\ Native(r.g) /\ Native(r.m) /\ Native(r.n)
    /\ SVal(a) * SVal(r.m) + SVal(b) * SVal(r.n) = SVal(r.g)
    /\ Val(r.g) # 0
    /\ Val(a) % Val(r.g) = 0
    /\ Val(b) % Val(r.g) = 0

\* C11: for all nonzero a and b representable in SignedBignumFast<N>, egcd(a, b)
\* returns (g, m, n) with a*m + b*n = g as signed integers and g dividing a and
\* b; egcd(101, 13) = (1, 4, -31), the signs of the coefficients included.
C11_EgcdBezout ==
    EgcdOperands =>
        /\ IsOk(out.res)
        /\ SmallPair => Bezout(x, y, out.res.val)
        /\ (SmallPair /\ SVal(x) = 101 /\ SVal(y) = 13)
           => /\ SVal(out.res.val.g) = 1
              /\ SVal(out.res.val.m) = 4
              /\ SVal(out.res.val.n) = 0 - 31

\* what holds of C11 whenever egcd returns
C11_BezoutWhenReturned ==
    (EgcdOperands /\ IsOk(out.res) /\ SmallPair) => Bezout(x, y, out.res.val)

\* egcd(101, 13) = (1, 4, -31) was computed
C11_Example ==
    /\ EgcdOperands /\ IsOk(out.res)
    /\ SVal(x) = 101 /\ SVal(y) = 13
    /\ SVal(out.res.val.g) = 1 /\ SVal(out.res.val.m) = 4 /\ SVal(out.res.val.n) = 0 - 31

\* a string is 0x followed by the minimal lowercase hex digits of a value v:
\* 0x0 for zero, no leading 0 otherwise
MinimalHex(str, is_nought) ==
    /\ Len(str) >= 3
    /\ SubSeq(str, 1, 2) = <<"0", "x">>
    /\ \A k \in 3..Len(str) : \E i \in 1..16 : HexDigits[i] = str[k]
    /\ IF is_nought THEN str = <<"0", "x", "0">> ELSE str[3] # "0"

\* C12: for every canonical x, try_from_hex_string(x.to_hex_string()) returns
\* Ok(y) with y == x and y canonical, to_hex_string being 0x followed by the
\* minimal lowercase hex digits (0x0 for zero).
C12_HexRoundTrip ==
    (out.op = "hex_round_trip" /\ Canonical(cap, x)) =>
        /\ MinimalHex(out.arg, is_zero(x))
        /\ IsOk(out.res)
        /\ eq(out.res.val, x)
        /\ out.res.val = x
        /\ Canonical(cap, out.res.val)

\* C12 witness: a value with a zero byte between nonzero bytes and a top byte
\* below 16 went through the round trip
C12_Witness ==
    /\ out.op = "hex_round_trip" /\ Canonical(cap, x)
    /\ x.pos > 0 /\ x.digits[x.pos] < 16 /\ x.digits[0] < 16
    /\ Len(out.arg) = 2 * x.pos + 3
    /\ IsOk(out.res) /\ out.res.val = x

\* C13: for distinct primes p and q, n = p * q and exponents e, d with
\* e * d = 1 mod phi(n), every message m with 0 <= m < n comes back from
\* Bignum::pow_mod(Bignum::pow_mod(m, e, n), d, n).
C13_RsaRoundTrip ==
    /\ out.op = "enc" => IsOk(out.res)
    /\ out.op = "dec" => (IsOk(out.res) /\ b_eq(out.res.val, y) /\ out.res.val = y)

\* C13 witness: a message was recovered from a different cipher under a modulus
\* of two bytes and a private exponent of two bytes
C13_Witness ==
    /\ out.op = "dec" /\ IsOk(out.res)
    /\ Len(x.n) = 2 /\ Len(x.d) = 2
    /\ out.arg # y
    /\ out.res.val = y

\* a returned signed value r stands for the integer v: the magnitude is |v| in
\* canonical form and the sign is set exactly when v is negative
SReturns(r, v) ==
    /\ IsOk(r)
    /\ Canonical(cap, r.val)
    /\ Native(r.val)
    /\ Val(r.val) = unsigned_abs(v)
    /\ r.val.sign = (v < 0)

\* both signed operands are within the integers of the model checker
NativePair == BitLen(x) <= 30 /\ BitLen(y) <= 30

\* C14: for all signed a and b with the result in range, a + b and a - b through
\* the four-case sign dispatch are the integer sum and difference: the right
\* magnitude, sign true exactly when the result is negative, false when zero.
C14_SignedAddSub ==
    /\ (out.op = "add" /\ NativePair) => SReturns(out.res, SVal(x) + SVal(y))
    /\ (out.op = "sub" /\ NativePair) => SReturns(out.res, SVal(x) - SVal(y))

\* C14 witness: (-x) + (y) with the larger magnitude on the negative side and a
\* borrow across digits
C14_Witness ==
    /\ out.op = "add" /\ NativePair
    /\ x.sign /\ ~y.sign /\ x.pos > 0 /\ ~is_zero(y)
    /\ SReturns(out.res, SVal(x) + SVal(y))
    /\ out.res.val.sign /\ out.res.val.pos = 0

\* C15: for every signed a and nonzero signed b, div_with_remainder(a, b) is the
\* truncating quotient and remainder: |q| = floor(|a| / |b|), |r| = |a| mod |b|,
\* q negative exactly when q # 0 and the operand signs differ, r negative
\* exactly when r # 0 and a is negative.
C15_SignedDivTruncates ==
    (out.op = "div_with_remainder" /\ NativePair /\ ~is_zero(y)) =>
        /\ IsOk(out.res)
        /\ Canonical(cap, out.res.val.q) /\ Canonical(cap, out.res.val.r)
        /\ Native(out.res.val.q) /\ Val(out.res.val.q) = Val(x) \div Val(y)
        /\ Native(out.res.val.r) /\ Val(out.res.val.r) = Val(x) % Val(y)
        /\ out.res.val.q.sign = (~is_zero(out.res.val.q) /\ x.sign # y.sign)
        /\ out.res.val.r.sign = (~is_zero(out.res.val.r) /\ x.sign)

\* C15 witness: a negative dividend and a positive divisor with a nonzero
\* quotient and a nonzero remainder, both negative
C15_Witness ==
    /\ out.op = "div_with_remainder" /\ NativePair
    /\ x.sign /\ ~y.sign /\ ~is_zero(y)
    /\ IsOk(out.res)
    /\ out.res.val.q.sign /\ out.res.val.r.sign
    /\ Val(x) = Val(out.res.val.q) * Val(y) + Val(out.res.val.r)

\* C16: for all signed integers a and b, from(a) == from(b) holds exactly when
\* a = b, and eq is true exactly when partial_cmp returns Equal; x and -x are
\* unequal for x # 0.
C16_SignedEq ==
    (out.op = "compare" /\ NativePair) =>
        /\ out.res.val.eq = (SVal(x) = SVal(y))
        /\ out.res.val.eq = (out.res.val.partial_cmp = "Equal")

\* x and -x were compared, x # 0: eq answered true and partial_cmp did not
\* answer Equal
C16_NegationEqual ==
    /\ out.op = "compare" /\ NativePair
    /\ ~is_zero(x) /\ SVal(x) = 0 - SVal(y)
    /\ out.res.val.eq
    /\ out.res.val.partial_cmp # "Equal"

\* what holds of C16: partial_cmp answers Equal exactly when a = b
C16_PartialCmpEqual ==
    (out.op = "compare" /\ NativePair) =>
        ((out.res.val.partial_cmp = "Equal") = (SVal(x) = SVal(y)))

\* floor(v / 2^k) for v below 2^31
ShiftedRight(v, k) == IF k >= 31 THEN 0 ELSE v \div Pow2(k)

\* C17: for every canonical a of any length up to N digits and every shift
\* k >= 0, a >> k returns without failing and is floor(a / 2^k) in canonical
\* form; it is canonical zero whenever k is at least the bit length of a.
C17_ShrFloor ==
    (out.op = "shr" /\ Canonical(cap, x)) =>
        /\ IsOk(out.res)
        /\ Canonical(cap, out.res.val)
        /\ Native(x) => Returns(out.res, ShiftedRight(Val(x), out.arg))
        /\ out.arg >= BitLen(x) => out.res.val = zero(cap)

\* what holds of C17 when the value and the whole bytes of the shift stay
\* within the capacity: pos + k / 8 < N, or k / 8 >= len
C17_ShrFloorWithinCapacity ==
    (/\ out.op = "shr" /\ Canonical(cap, x)
     /\ (x.pos + out.arg \div 8 < cap \/ out.arg \div 8 >= len(x))) =>
        /\ IsOk(out.res)
        /\ Canonical(cap, out.res.val)
        /\ Native(x) => Returns(out.res, ShiftedRight(Val(x), out.arg))
        /\ out.arg >= BitLen(x) => out.res.val = zero(cap)

\* a value of N digits was shifted right by a whole byte and more, and the call
\* failed
C17_FullLengthPanics ==
    /\ out.op = "shr" /\ Canonical(cap, x)
    /\ len(x) = cap /\ out.arg \div 8 > 0 /\ out.arg \div 8 < len(x)
    /\ out.res.kind = "panic"

\* a * 2^k fits in N digits
ShlFits == is_zero(x) \/ BitLen(x) + out.arg <= 8 * cap

\* C18: for every canonical a, zero included, and every k such that a * 2^k
\* fits in N digits, a << k is equal under == to the canonical representation
\* of a * 2^k and is itself canonical.
C18_ShlExact ==
    (out.op = "shl" /\ Canonical(cap, x) /\ ShlFits) =>
        /\ IsOk(out.res)
        /\ Canonical(cap, out.res.val)
        /\ is_zero(x) => eq(out.res.val, zero(cap))
        /\ BitLen(x) + out.arg <= 31 => Returns(out.res, Val(x) * Pow2(out.arg))

\* what holds of C18 for the values other than zero
C18_ShlExactNonzero ==
    (out.op = "shl" /\ Canonical(cap, x) /\ ShlFits /\ ~is_zero(x)) =>
        /\ IsOk(out.res)
        /\ Canonical(cap, out.res.val)
        /\ BitLen(x) + out.arg <= 31 => Returns(out.res, Val(x) * Pow2(out.arg))

\* zero was shifted left by a whole byte: the result has pos = 1 and is not
\* equal to zero under ==
C18_ZeroShiftedNotZero ==
    /\ out.op = "shl" /\ x = zero(cap) /\ out.arg = 8
    /\ IsOk(out.res)
    /\ out.res.val.pos = 1
    /\ ~eq(out.res.val, zero(cap))

\* the digit of index i of a slice read in the byte order of the importer op
SliceDigit(op, slice, i) ==
    IF i >= Len(slice) THEN 0
    ELSE IF op = "import_big_endian" THEN slice[Len(slice) - i]
    ELSE slice[i + 1]

\* C19: from_big_endian and from_little_endian return None exactly when the
\* slice is longer than N; otherwise Some(v), v canonical with the digits of the
\* slice in the stated byte order (leading zero bytes ignored, an empty or
\* all-zero slice giving zero).
C19_ImportNoneOrCanonical ==
    (out.op \in {"import_big_endian", "import_little_endian"}) =>
        /\ (out.res.kind = "none") = (Len(out.arg) > cap)
        /\ Len(out.arg) <= cap =>
              /\ IsOk(out.res)
              /\ Canonical(cap, out.res.val)
              /\ \A i \in 0..(cap - 1) :
                    out.res.val.digits[i] = SliceDigit(out.op, out.arg, i)

\* C19 witness: a big-endian slice with a leading zero byte and a nonzero last
\* byte gave a one-digit value
C19_Witness ==
    /\ out.op = "import_big_endian"
    /\ Len(out.arg) = 2 /\ out.arg[1] = 0 /\ out.arg[2] # 0
    /\ IsOk(out.res)
    /\ out.res.val.pos = 0 /\ out.res.val.digits[0] = out.arg[2]

\* a slice of N + 1 bytes gave None
C19_TooLongIsNone ==
    /\ out.op = "import_little_endian"
    /\ Len(out.arg) = cap + 1
    /\ out.res.kind = "none"

\* a string without its optional 0x prefix
HexBody(str) == IF StartsWith(str, <<"0", "x">>) THEN SubSeq(str, 3, Len(str)) ELSE str

\* every character is a hex digit
AllHex(b) == \A k \in 1..Len(b) : to_digit(b[k]) >= 0

\* C20: try_from_hex_string is recoverable for every input string: Err for any
\* string with a non-hex character after the optional 0x prefix, Ok for
\* well-formed input, and never a panic, well-formed strings whose value needs
\* more than N bytes included.
C20_HexRecoverable ==
    out.op = "import_hex" =>
        /\ out.res.kind \in {"ok", "err"}
        /\ ~AllHex(HexBody(out.arg)) => out.res.kind = "err"
        /\ (AllHex(HexBody(out.arg)) /\ Len(HexBody(out.arg)) > 0) => out.res.kind = "ok"

\* a well-formed string whose value needs N + 1 bytes was parsed, and the call
\* panicked
C20_OverlongPanics ==
    /\ out.op = "import_hex" /\ out.arg = OverlongHex(cap)
    /\ out.res.kind = "panic"

\* what holds of C20: a string within N bytes, without + and with at most one
\* 0x prefix, gives Err when a character is not a hex digit and Ok otherwise
C20_HexRecoverableWithinCapacity ==
    (/\ out.op = "import_hex"
     /\ Len(HexBody(out.arg)) <= 2 * cap
     /\ \A k \in 1..Len(out.arg) : out.arg[k] # "+"
     /\ ~StartsWith(HexBody(out.arg), <<"0", "x">>)) =>
        /\ out.res.kind \in {"ok", "err"}
        /\ ~AllHex(HexBody(out.arg)) => out.res.kind = "err"
        /\ AllHex(HexBody(out.arg)) => out.res.kind = "ok"

\* the last call was div_ref on field elements x and y modulo the prime out.arg
EccOperands == out.op = "div_ref"

\* C21: for a prime p, a in [0, p) and b in [1, p), EccCoordinate::div_ref(a, b, p)
\* returns c in [0, p) with c * b = a (mod p); the congruence is compared as
\* integers when p is small enough for the products.
C21_DivRefInverse ==
    EccOperands =>
        /\ IsOk(out.res)
        /\ lt(out.res.val, out.arg)
        /\ BitLen(out.arg) <= 15
           => (Val(out.res.val) * Val(y)) % Val(out.arg) = Val(x)

\* what holds of C21 whenever div_ref returns
C21_InverseWhenReturned ==
    (EccOperands /\ IsOk(out.res)) =>
        /\ lt(out.res.val, out.arg)
        /\ BitLen(out.arg) <= 15
           => (Val(out.res.val) * Val(y)) % Val(out.arg) = Val(x)

\* 13 / 2 = 57 modulo 101 was computed
C21_Example ==
    /\ EccOperands /\ IsOk(out.res)
    /\ BitLen(out.arg) <= 15 /\ Val(out.arg) = 101 /\ Val(x) = 13 /\ Val(y) = 2 /\ Val(out.res.val) = 57

\* div_ref(1, 1, 2^127 - 1) in sixteen digits ended in a panic
C21_FullLengthPrimePanics ==
    /\ EccOperands /\ out.res = Panic
    /\ BitLen(out.arg) = 127 /\ BitLen(x) = 1 /\ BitLen(y) = 1

\* the integer a heap Bignum stands for
RECURSIVE BignumVal(_)
BignumVal(v) == IF v = <<>> THEN 0 ELSE v[1] + base * BignumVal(Tail(v))

\* C22: heap Bignum a - b panics for every pair with a < b, pairs of equal byte
\* length included; no value is returned when the true difference is negative.
C22_SubPanicsWhenLess ==
    (out.op = "b_sub_ref" /\ BignumVal(x) < BignumVal(y)) => out.res = Panic

\* 255 - 256, the left operand being the shorter one, ended in a panic
C22_ShorterPanics ==
    /\ out.op = "b_sub_ref" /\ out.res = Panic
    /\ BignumVal(x) = 255 /\ BignumVal(y) = 256

\* 1 - 2 returned 1
C22_EqualLengthReturns ==
    /\ out.op = "b_sub_ref" /\ BignumVal(x) = 1 /\ BignumVal(y) = 2
    /\ IsOk(out.res) /\ BignumVal(out.res.val) = 1

\* C23: heap Bignum a >> k is floor(a / 2^k) for every a and every k, shifts of
\* eight bits and more and shifts beyond the length of a (zero) included.
C23_BignumShrFloor ==
    out.op = "b_shr" =>
        /\ IsOk(out.res)
        /\ BignumVal(out.res.val) = BignumVal(x) \div Pow2(out.arg)

\* 0xffff >> 12 = 0xf was computed
C23_Example ==
    /\ out.op = "b_shr" /\ out.arg = 12 /\ BignumVal(x) = 65535
    /\ IsOk(out.res) /\ BignumVal(out.res.val) = 15

\* 0x1234 >> 9 returned 0x1a, the low byte shifted by one bit
C23_LowByteKept ==
    /\ out.op = "b_shr" /\ out.arg = 9 /\ BignumVal(x) = 4660
    /\ IsOk(out.res) /\ BignumVal(out.res.val) = 26

\* bit k of a value
Bit(a, k) == BitOf(a.digits[k \div 8], k % 8)

\* the last call was a bit mutator on a canonical x with an index below 8 * N
BitMutated ==
    /\ out.op \in {"set_bit", "unset_bit", "toggle_bit"}
    /\ out.arg < 8 * cap
    /\ Canonical(cap, x)

\* bit k after the call op on a value whose bit k was old
BitAfter(op, old) ==
    IF op = "set_bit" THEN TRUE ELSE IF op = "unset_bit" THEN FALSE ELSE ~old

\* C24: for a canonical v and a bit index below 8 * N, set_bit, unset_bit and
\* toggle_bit change exactly that bit (to 1, to 0, flipped), leave every other
\* bit as it was and leave v canonical.
C24_BitMutators ==
    BitMutated =>
        /\ IsOk(out.res)
        /\ Canonical(cap, out.res.val)
        /\ \A k \in 0..(8 * cap - 1) :
              Bit(out.res.val, k) = IF k = out.arg THEN BitAfter(out.op, Bit(x, k))
                                    ELSE Bit(x, k)

\* a mutator cleared the only bit of the top digit of a value of several digits
\* and pos came down
C24_Witness ==
    /\ BitMutated /\ IsOk(out.res)
    /\ out.op \in {"unset_bit", "toggle_bit"}
    /\ x.pos > 0 /\ out.res.val.pos < x.pos

\* set_bit raised pos
C24_SetRaisesPos ==
    /\ BitMutated /\ IsOk(out.res)
    /\ out.op = "set_bit" /\ out.res.val.pos > x.pos

\* C25: BignumFast mul_ref panics exactly when len(a) + len(b) > N, before any
\* digit is computed, also when the product would fit (a full-length value
\* times 0 or 1); it never panics when len(a) + len(b) <= N.
C25_MulPanicsOnLength ==
    /\ pc = "inner" => len(x) + len(y) <= cap
    /\ (pc = "done" /\ out.op = "mul_ref") =>
          IF len(x) + len(y) > cap THEN out.res = Panic /\ out.arg = 0
          ELSE IsOk(out.res) /\ out.arg = len(x) * len(y)

\* a value filling the capacity times 1 ended in a panic
C25_Witness ==
    /\ pc = "done" /\ out.op = "mul_ref" /\ out.res = Panic
    /\ x.pos = cap - 1 /\ x.digits[x.pos] # 0
    /\ y.pos = 0 /\ y.digits[0] = 1

\* the step-wise product is the product mul_ref returns
MulStepsAgree ==
    (pc = "done" /\ out.op = "mul_ref") => out.res = mul_ref(cap, x, y)

\* C30: in mul_ref the 16-bit accumulator never overflows: partial digit +
\* carry + a_i * b_j is at most 65535, the carry is at most 255, and so is the
\* value stored at column b_i + p and every digit of the product.
C30_AccumulatorFits ==
    /\ out.res # Overflow
    /\ pc = "inner" =>
          /\ sout.tmp <= 65535
          /\ sout.carry <= 255
          /\ \A i \in 0..(cap - 1) : sout.digits[i] <= 255

\* an iteration whose tmp needed all sixteen bits left the carry 255
C30_Witness ==
    /\ pc = "inner" /\ sout.a_i > 0
    /\ sout.tmp >= 65280 /\ sout.carry = 255

\* the whole-byte part of the shift x << out.arg does not fit the capacity
ShlBytesDropped == out.arg \div 8 + len(x) > cap

Words(a, k) == a.digits[k \div LIMB_WORDS][k % LIMB_WORDS]

\* the carry into word k of the integer sum of x and y
RECURSIVE SumCarry(_)
SumCarry(k) ==
    IF k = 0 THEN 0 ELSE (Words(x, k - 1) + Words(y, k - 1) + SumCarry(k - 1)) \div word

\* the value a stands for the integer x + y
IsSum(a) ==
    \A k \in 0..(cap * LIMB_WORDS - 1) :
        Words(a, k) = (Words(x, k) + Words(y, k) + SumCarry(k)) % word

\* pos is the highest nonzero limb (0 for zero)
LimbCanonical(a) ==
    /\ a.pos \in 0..(cap - 1)
    /\ \A i \in 0..(cap - 1) : i > a.pos => u64_is_zero(a.digits[i])
    /\ a.pos > 0 => ~u64_is_zero(a.digits[a.pos])

\* C27: UBignum add_assign_ref(a, b), and +=, leave a holding the integer a + b
\* in canonical form whenever the sum fits in N limbs, and fail fatally when it
\* does not.
C27_LimbAdd ==
    out.op \in {"add_assign_ref", "add_assign"} =>
        IF SumCarry(cap * LIMB_WORDS) = 0
        THEN IsOk(out.res) /\ IsSum(out.res.val.self) /\ LimbCanonical(out.res.val.self)
        ELSE out.res = Panic

\* (2^64 - 1) + 1: the call returned with both limbs zero, the carry out of the
\* low limb being handed back
C27_CarryLeavesLowLimb ==
    /\ out.op = "add_assign_ref" /\ IsOk(out.res)
    /\ x = u_from_u128(cap, [k \in 0..(LIMB_WORDS - 1) |-> word - 1], u64_from(0))
    /\ y = u_from_u128(cap, u64_from(1), u64_from(0))
    /\ \A i \in 0..(cap - 1) : u64_is_zero(out.res.val.self.digits[i])
    /\ out.res.val.carry = 1

\* 1 + 1 = 2 was computed
C27_Example ==
    /\ out.op = "add_assign_ref" /\ IsOk(out.res)
    /\ x = u_from_u128(cap, u64_from(1), u64_from(0)) /\ y = x
    /\ out.res.val.self = u_from_u128(cap, u64_from(2), u64_from(0))

\* the magnitude of a is below the magnitude of b, digit by digit from the top
RECURSIVE MagBelow(_, _, _)
MagBelow(a, b, i) ==
    IF i < 0 THEN FALSE
    ELSE IF a.digits[i] # b.digits[i] THEN a.digits[i] < b.digits[i]
    ELSE MagBelow(a, b, i - 1)

C28_GcdReturned ==
    /\ pc = "done" /\ out.op = "gcd" /\ IsOk(out.res) /\ out.arg >= 2

\* a division of canonical operands by a divisor other than zero
Dividing == Canonical(cap, x) /\ Canonical(cap, y) /\ ~is_zero(y)

\* C29: in BignumFast::div_with_remainder with a nonzero divisor b, at the end
\* of every loop iteration i, r < b and floor(a / 2^i) = (q / 2^i) * b + r (as
\* integers, when a is small enough to be one), and the one-bit left shift of r
\* never discards a set bit, also when a and b occupy all N digits.
C29_DivLoopInvariant ==
    /\ (pc = "loop" /\ Dividing) =>
          /\ sout.i > 0 => ~Bit(sout.r, 8 * cap - 1)
          /\ sout.i < 8 * len(x) =>
                /\ Canonical(cap, sout.r)
                /\ lt(sout.r, y)
                /\ BitLen(x) <= 30 =>
                      Val(x) \div Pow2(sout.i)
                          = (Val(sout.q) \div Pow2(sout.i)) * Val(y) + Val(sout.r)
    /\ (out.op = "div_with_remainder" /\ Dividing) => IsOk(out.res)

\* the step-wise division is the division div_with_remainder returns
DivStepsAgree ==
    (pc = "done" /\ out.op = "div_with_remainder")
        => out.res = div_with_remainder(cap, x, y)

\* a and b occupy all N digits, iterations are still to come and r reaches
\* into the top digit
C29_Witness ==
    /\ pc = "loop" /\ Dividing
    /\ x.pos = cap - 1 /\ y.pos = cap - 1
    /\ sout.i > 0 /\ sout.i < 8 * len(x)
    /\ sout.r.pos = cap - 1
    /\ Bit(sout.r, 8 * cap - 2)

====
